---- MODULE Spec2Model ----
(***************************************************************************)
(* Valuation engine of valor-vista-ai-advisor: the DCF / DDM calculators   *)
(* of AdvancedValuationService, FinancialDataService, the DCFCalculator    *)
(* component and utils/dcfCalculator.                                      *)
(*                                                                         *)
(* JavaScript numbers are modelled as exact values with the special cases  *)
(* of IEEE-754 arithmetic kept: a number is a record                       *)
(*     [k |-> "fin", s, n, d]   the rational s * n / d  (s = 1 or -1,      *)
(*                              n >= 0, d >= 1, gcd(n, d) = 1; n = 0 is    *)
(*                              +0 or -0 according to s)                   *)
(*     [k |-> "inf", s, ...]    +Infinity or -Infinity                     *)
(*     [k |-> "nan", ...]       NaN                                        *)
(* Rounding and overflow of finite values are not modelled: the bounded    *)
(* inputs are small rationals.  Reading an array out of range gives        *)
(* undefined, which every arithmetic operator converts to NaN.             *)
(***************************************************************************)
EXTENDS Integers, Sequences, FiniteSets, TLC

\* ------------------------------------------------------------------------
\* Numbers
\* ------------------------------------------------------------------------
RECURSIVE GCD(_, _)
GCD(a, b) ==
    IF b = 0 THEN a ELSE GCD(b, a % b)

NaN ==
    [k |-> "nan", s |-> 1, n |-> 0, d |-> 1]

Inf(s) ==
    [k |-> "inf", s |-> s, n |-> 1, d |-> 1]

\* the finite value s * n / d in lowest terms (n >= 0, d >= 1)
Fin(s, n, d) ==
    LET g == GCD(n, d)
    IN  [k |-> "fin", s |-> s, n |-> n \div g, d |-> d \div g]

\* the rational p / q for integers p, q with q > 0
Q(p, q) ==
    IF p < 0 THEN Fin(-1, -p, q) ELSE Fin(1, p, q)

Num(p) ==
    Q(p, 1)

IsNaN(x) ==
    x.k = "nan"

IsFinite(x) ==
    x.k = "fin"

IsZero(x) ==
    x.k = "fin" /\ x.n = 0

Neg(x) ==
    IF x.k = "nan" THEN NaN
    ELSE [x EXCEPT !.s = -x.s]

Abs(x) ==
    IF x.k = "nan" THEN NaN
    ELSE [x EXCEPT !.s = 1]

Mul(x, y) ==
    IF x.k = "nan" \/ y.k = "nan" THEN NaN
    ELSE IF x.k = "inf" \/ y.k = "inf"
    THEN IF IsZero(x) \/ IsZero(y) THEN NaN ELSE Inf(x.s * y.s)
    ELSE LET g1 == GCD(x.n, y.d)
             g2 == GCD(y.n, x.d)
         IN  [k |-> "fin", s |-> x.s * y.s,
              n |-> (x.n \div g1) * (y.n \div g2),
              d |-> (x.d \div g2) * (y.d \div g1)]

Div(x, y) ==
    IF x.k = "nan" \/ y.k = "nan" THEN NaN
    ELSE IF x.k = "inf"
    THEN IF y.k = "inf" THEN NaN ELSE Inf(x.s * y.s)
    ELSE IF y.k = "inf" THEN Fin(x.s * y.s, 0, 1)
    ELSE IF y.n = 0
    THEN IF x.n = 0 THEN NaN ELSE Inf(x.s * y.s)
    ELSE Mul(x, [k |-> "fin", s |-> y.s, n |-> y.d, d |-> y.n])

Add(x, y) ==
    IF x.k = "nan" \/ y.k = "nan" THEN NaN
    ELSE IF x.k = "inf"
    THEN IF y.k = "inf" /\ y.s # x.s THEN NaN ELSE x
    ELSE IF y.k = "inf" THEN y
    ELSE IF x.n = 0 /\ y.n = 0
    THEN Fin(IF x.s = -1 /\ y.s = -1 THEN -1 ELSE 1, 0, 1)
    ELSE LET g == GCD(x.d, y.d)
             l == (x.d \div g) * y.d
             p == x.s * x.n * (l \div x.d) + y.s * y.n * (l \div y.d)
         IN  Q(p, l)

Sub(x, y) ==
    Add(x, Neg(y))

\* <, <=, >, >= of JavaScript: false as soon as one side is NaN
Lt(x, y) ==
    /\ x.k # "nan"
    /\ y.k # "nan"
    /\ IF x.k = "inf" THEN x.s = -1 /\ ~(y.k = "inf" /\ y.s = -1)
       ELSE IF y.k = "inf" THEN y.s = 1
       ELSE LET g == GCD(x.d, y.d)
            IN  x.s * x.n * (y.d \div g) < y.s * y.n * (x.d \div g)

\* === of JavaScript on numbers: NaN equals nothing, +0 equals -0
Eq(x, y) ==
    /\ x.k # "nan"
    /\ y.k # "nan"
    /\ x.k = y.k
    /\ IF x.k = "inf" THEN x.s = y.s
       ELSE IF x.n = 0 THEN y.n = 0
       ELSE x = y

Le(x, y) ==
    Lt(x, y) \/ Eq(x, y)

Gt(x, y) ==
    Lt(y, x)

Ge(x, y) ==
    Le(y, x)

\* Math.pow(x, e) for an integer e >= 0; Math.pow(NaN, 0) is 1
RECURSIVE Pow(_, _)
Pow(x, e) ==
    IF e = 0 THEN Num(1) ELSE Mul(x, Pow(x, e - 1))

\* arr[i] used as a number, i counted from 0 as in the source:
\* undefined (out of range) converts to NaN
At(arr, i) ==
    IF i >= 0 /\ i < Len(arr) THEN arr[i + 1] ELSE NaN

\* an array left in the order it was given
KeptInOrder(arr) ==
    arr

\* Array.prototype.reverse
Reverse(arr) ==
    [i \in 1..Len(arr) |-> arr[Len(arr) + 1 - i]]

\* arr.reduce((sum, v) => sum + v, 0)
RECURSIVE SumFrom(_, _, _)
SumFrom(arr, i, acc) ==
    IF i > Len(arr) THEN acc ELSE SumFrom(arr, i + 1, Add(acc, arr[i]))

Sum(arr) ==
    SumFrom(arr, 1, Num(0))

\* ------------------------------------------------------------------------
\* AdvancedValuationService
\* ------------------------------------------------------------------------

\* the growth rates pushed by the loop of calculateAverageGrowthRate,
\* for i (counted from 0) up to values.length - 1
RECURSIVE growthRates(_, _)
growthRates(values, i) ==
    IF i >= Len(values) THEN <<>>
    ELSE IF ~Eq(At(values, i - 1), Num(0))
    THEN <<Div(Sub(At(values, i), At(values, i - 1)), Abs(At(values, i - 1)))>>
             \o growthRates(values, i + 1)
    ELSE growthRates(values, i + 1)

\* an average without the fallbacks for a series without a valid pair
averageGrowthUnguarded(values) ==
    LET rates == growthRates(values, 1)
    IN  Div(Sum(rates), Num(Len(rates)))

\* an average that divides by the number of adjacent pairs, skipped or not
averageGrowthOverAllPairs(values) ==
    IF Len(values) < 2 THEN Num(0)
    ELSE LET rates == growthRates(values, 1)
         IN  IF Len(rates) > 0
             THEN Div(Sum(rates), Num(Len(values) - 1))
             ELSE Num(0)

calculateAverageGrowthRate(values) ==
    IF Len(values) < 2 THEN Num(0)
    ELSE LET rates == growthRates(values, 1)
         IN  IF Len(rates) > 0
             THEN Div(Sum(rates), Num(Len(rates)))
             ELSE Num(0)

\* the projection loop: i runs from 1 to forecastYears
RECURSIVE projectFrom(_, _, _, _)
projectFrom(currentFCF, rate, i, forecastYears) ==
    IF i > forecastYears THEN <<>>
    ELSE LET next == Mul(currentFCF, Add(Num(1), rate))
         IN  <<next>> \o projectFrom(next, rate, i + 1, forecastYears)

\* a discounting that takes the array index as the exponent
presentValuesByIndex(projectedFCF, wacc) ==
    [y \in 1..Len(projectedFCF) |->
        Div(projectedFCF[y], Pow(Add(Num(1), wacc), y - 1))]

\* projectedFCF.map((fcf, year) => fcf / Math.pow(1 + wacc, year + 1))
presentValuesOf(projectedFCF, wacc) ==
    [y \in 1..Len(projectedFCF) |->
        Div(projectedFCF[y], Pow(Add(Num(1), wacc), y))]

\* data.cashFromOps.map((cfo, i) => cfo + data.capex[i])
historicalFCFOf(data) ==
    [i \in 1..Len(data.cashFromOps) |->
        Add(data.cashFromOps[i], At(data.capex, i - 1))]

\* a calculator that adds the debt back instead of deducting it
equityValueAddingDebt(enterpriseValue, totalDebt) ==
    Add(enterpriseValue, totalDebt)

\* const equityValue = enterpriseValue - data.totalDebt
equityValueOf(enterpriseValue, totalDebt) ==
    Sub(enterpriseValue, totalDebt)

calculateDCF(data, inputs) ==
    LET costOfEquity ==
            Add(inputs.riskFreeRate,
                Mul(data.beta, Sub(inputs.marketReturn, inputs.riskFreeRate)))
        costOfDebt ==
            Mul(Div(data.interestExpense, data.totalDebt),
                Sub(Num(1), inputs.taxRate))
        equity == data.marketCap
        debt == data.totalDebt
        totalCapital == Add(equity, debt)
        wacc ==
            Add(Mul(Div(equity, totalCapital), costOfEquity),
                Mul(Div(debt, totalCapital), costOfDebt))
        historicalFCF == historicalFCFOf(data)
        avgGrowthRate == calculateAverageGrowthRate(historicalFCF)
        projectedFCF ==
            projectFrom(At(historicalFCF, 0), avgGrowthRate, 1, inputs.forecastYears)
        terminalFCF ==
            Mul(At(projectedFCF, Len(projectedFCF) - 1),
                Add(Num(1), inputs.terminalGrowthRate))
        terminalValue == Div(terminalFCF, Sub(wacc, inputs.terminalGrowthRate))
        presentValues == presentValuesOf(projectedFCF, wacc)
        terminalPV ==
            Div(terminalValue, Pow(Add(Num(1), wacc), inputs.forecastYears))
        enterpriseValue == Add(Sum(presentValues), terminalPV)
        equityValue == equityValueOf(enterpriseValue, data.totalDebt)
        pricePerShare == Div(equityValue, data.sharesOutstanding)
        upside == Div(Sub(pricePerShare, data.currentPrice), data.currentPrice)
    IN  [wacc |-> wacc,
         costOfEquity |-> costOfEquity,
         costOfDebt |-> costOfDebt,
         projectedFCF |-> projectedFCF,
         terminalValue |-> terminalValue,
         enterpriseValue |-> enterpriseValue,
         equityValue |-> equityValue,
         pricePerShare |-> pricePerShare,
         currentPrice |-> data.currentPrice,
         upside |-> upside]

\* a check that lets growth equal to the cost of equity through
growthAboveCostOfEquity(avgDividendGrowth, costOfEquity) ==
    Gt(avgDividendGrowth, costOfEquity)

\* if (avgDividendGrowth >= costOfEquity)
growthExceedsCostOfEquity(avgDividendGrowth, costOfEquity) ==
    Ge(avgDividendGrowth, costOfEquity)

\* a result for an applicable DDM that carries an empty reason
applicableResultWithReason(avgDividendGrowth, nextYearDividend, intrinsicValue, currentPrice, upside) ==
    [avgDividendGrowth |-> avgDividendGrowth,
     nextYearDividend |-> nextYearDividend,
     intrinsicValue |-> intrinsicValue,
     currentPrice |-> currentPrice,
     upside |-> upside,
     applicable |-> TRUE,
     reason |-> ""]

\* the object literal of the last return of calculateDDM
applicableResult(avgDividendGrowth, nextYearDividend, intrinsicValue, currentPrice, upside) ==
    [avgDividendGrowth |-> avgDividendGrowth,
     nextYearDividend |-> nextYearDividend,
     intrinsicValue |-> intrinsicValue,
     currentPrice |-> currentPrice,
     upside |-> upside,
     applicable |-> TRUE]

\* calculateDDM: the DDMResults it returns (result) and the profile object
\* as the call leaves it (data): Array.prototype.reverse works in place
calculateDDM(data, inputs) ==
    IF ~data.paysDividends \/ Len(data.dividends) < 3
    THEN [result |->
            [avgDividendGrowth |-> Num(0),
             nextYearDividend |-> Num(0),
             intrinsicValue |-> Num(0),
             currentPrice |-> data.currentPrice,
             upside |-> Num(0),
             applicable |-> FALSE,
             reason |-> "Company does not pay dividends or insufficient dividend history"],
          data |-> data]
    ELSE LET reversed == Reverse(data.dividends)
             after == [data EXCEPT !.dividends = reversed]
             avgDividendGrowth == calculateAverageGrowthRate(reversed)
             costOfEquity ==
                 Add(inputs.riskFreeRate,
                     Mul(after.beta, Sub(inputs.marketReturn, inputs.riskFreeRate)))
             currentDividend == At(after.dividends, 0)
             nextYearDividend == Mul(currentDividend, Add(Num(1), avgDividendGrowth))
             intrinsicValue ==
                 Div(nextYearDividend, Sub(costOfEquity, avgDividendGrowth))
             upside ==
                 Div(Sub(intrinsicValue, after.currentPrice), after.currentPrice)
         IN  IF growthExceedsCostOfEquity(avgDividendGrowth, costOfEquity)
             THEN [result |->
                     [avgDividendGrowth |-> avgDividendGrowth,
                      nextYearDividend |-> Num(0),
                      intrinsicValue |-> Num(0),
                      currentPrice |-> after.currentPrice,
                      upside |-> Num(0),
                      applicable |-> FALSE,
                      reason |-> "Dividend growth rate exceeds cost of equity - DDM not applicable"],
                   data |-> after]
             ELSE [result |->
                     applicableResult(avgDividendGrowth, nextYearDividend,
                                      intrinsicValue, after.currentPrice, upside),
                   data |-> after]

\* x.toFixed(1), as the number the digits denote: the nearest multiple of
\* 0.1, a tie going away from zero; the sign is kept ("-0.0")
toFixed1(x) ==
    IF ~IsFinite(x) THEN x
    ELSE [k |-> "fin", s |-> x.s, n |-> (20 * x.n + x.d) \div (2 * x.d), d |-> 10]

\* (upside * 100).toFixed(1)
percentOf(upside) ==
    toFixed1(Mul(upside, Num(100)))

\* upside > 0 ? 'upside' : 'downside'
directionOf(upside) ==
    IF Gt(upside, Num(0)) THEN "upside" ELSE "downside"

\* the closing sentences of the recommendation when both models apply
dualVerdicts ==
    [strongBuy |-> "Strong BUY recommendation based on significant undervaluation across both models.",
     buy |-> "BUY recommendation with moderate upside potential.",
     hold |-> "HOLD recommendation as the stock appears fairly valued.",
     sell |-> "SELL recommendation due to overvaluation signals."]

\* the closing sentences of the recommendation when only the DCF applies
dcfVerdicts ==
    [strongBuy |-> "Strong BUY recommendation based on DCF undervaluation.",
     buy |-> "BUY recommendation with moderate upside.",
     hold |-> "HOLD recommendation as stock appears fairly valued.",
     sell |-> "SELL recommendation due to DCF overvaluation."]

\* a classification whose thresholds are inclusive
verdictAtOrAbove(upside, verdicts) ==
    IF Ge(upside, Q(15, 100)) THEN verdicts.strongBuy
    ELSE IF Ge(upside, Q(5, 100)) THEN verdicts.buy
    ELSE IF Ge(upside, Q(-5, 100)) THEN verdicts.hold
    ELSE verdicts.sell

\* if (upside > 0.15) ... else if (upside > 0.05) ... else if
\* (upside > -0.05) ... else ...
verdictOf(upside, verdicts) ==
    IF Gt(upside, Q(15, 100)) THEN verdicts.strongBuy
    ELSE IF Gt(upside, Q(5, 100)) THEN verdicts.buy
    ELSE IF Gt(upside, Q(-5, 100)) THEN verdicts.hold
    ELSE verdicts.sell

\* a figure that leaves the DDM upside out
dcfUpsideAlone(dcfResults, ddmResults) ==
    dcfResults.upside

\* const avgUpside = (dcf.upside + ddm.upside) / 2
avgUpsideOf(dcfResults, ddmResults) ==
    Div(Add(dcfResults.upside, ddmResults.upside), Num(2))

\* generateRecommendation: text is the sequence of the pieces the template
\* strings put together, a formatted percentage being a piece of its own
generateRecommendation(dcfResults, ddmResults) ==
    LET dualLead ==
            IF Lt(Abs(dcfResults.upside), Abs(ddmResults.upside))
            THEN <<"Based on our dual valuation approach, the DCF model suggests a ",
                   percentOf(dcfResults.upside), "% ", directionOf(dcfResults.upside),
                   " while the DDM indicates ",
                   percentOf(ddmResults.upside), "% ", directionOf(ddmResults.upside),
                   ". ">>
            ELSE <<"The DDM valuation shows ",
                   percentOf(ddmResults.upside), "% ", directionOf(ddmResults.upside),
                   " compared to the DCF's ",
                   percentOf(dcfResults.upside), "% ", directionOf(dcfResults.upside),
                   ". ">>
        avgUpside == avgUpsideOf(dcfResults, ddmResults)
        text ==
            IF ddmResults.applicable
            THEN dualLead \o <<verdictOf(avgUpside, dualVerdicts)>>
            ELSE <<"Based on DCF analysis, the stock shows ",
                   percentOf(dcfResults.upside), "% ", directionOf(dcfResults.upside),
                   ". DDM is not applicable: ",
                   IF "reason" \in DOMAIN ddmResults
                   THEN ddmResults.reason ELSE "undefined",
                   ". ">>
                 \o <<verdictOf(dcfResults.upside, dcfVerdicts)>>
    IN  [text |-> text,
         risks |-> <<"Market volatility and economic headwinds",
                     "Interest rate sensitivity affecting discount rates",
                     "Competitive pressure in core markets">>,
         strengths |-> <<"Strong cash flow generation capability",
                         "Established market position",
                         "Professional financial modeling approach">>]

\* ------------------------------------------------------------------------
\* FinancialDataService
\* ------------------------------------------------------------------------
\* a WACC that weighs the cost of debt by the debt-to-equity ratio
calculateWACCDebtToEquity(financials, inputs) ==
    LET costOfEquity ==
            Add(inputs.riskFreeRate, Mul(financials.beta, inputs.marketRiskPremium))
        costOfDebt ==
            Mul(Div(financials.interestExpense, financials.totalDebt),
                Sub(Num(1), financials.taxRate))
        totalCapital == Add(financials.marketCap, financials.totalDebt)
        equityWeight == Div(financials.marketCap, totalCapital)
        debtWeight == Div(financials.totalDebt, financials.marketCap)
    IN  Add(Mul(equityWeight, costOfEquity), Mul(debtWeight, costOfDebt))

calculateWACC(financials, inputs) ==
    LET costOfEquity ==
            Add(inputs.riskFreeRate, Mul(financials.beta, inputs.marketRiskPremium))
        costOfDebt ==
            Mul(Div(financials.interestExpense, financials.totalDebt),
                Sub(Num(1), financials.taxRate))
        totalCapital == Add(financials.marketCap, financials.totalDebt)
        equityWeight == Div(financials.marketCap, totalCapital)
        debtWeight == Div(financials.totalDebt, totalCapital)
    IN  Add(Mul(equityWeight, costOfEquity), Mul(debtWeight, costOfDebt))

\* the loop of projectFCF: i runs from 0 to years - 1
RECURSIVE projectFCFFrom(_, _, _, _)
projectFCFFrom(currentFCF, growthRate, i, years) ==
    IF i >= years THEN <<>>
    ELSE LET next == Mul(currentFCF, Add(Num(1), growthRate))
         IN  <<next>> \o projectFCFFrom(next, growthRate, i + 1, years)

\* a projection that floors every projected cash flow at zero
projectFCFClamped(baseFCF, growthRate, years) ==
    LET projections == projectFCFFrom(baseFCF, growthRate, 0, years)
    IN  [i \in 1..Len(projections) |->
            IF Lt(projections[i], Num(0)) THEN Num(0) ELSE projections[i]]

projectFCF(baseFCF, growthRate, years) ==
    projectFCFFrom(baseFCF, growthRate, 0, years)

\* a perpetuity on the final year's cash flow, not grown one more year
terminalValueOfFinalYear(finalYearFCF, terminalGrowth, wacc) ==
    Div(finalYearFCF, Sub(wacc, terminalGrowth))

calculateTerminalValue(finalYearFCF, terminalGrowth, wacc) ==
    Div(Mul(finalYearFCF, Add(Num(1), terminalGrowth)), Sub(wacc, terminalGrowth))

\* the three scenarios listed from the most to the least optimistic
scenarioListBullFirst ==
    <<[name |-> "Bull", growthRate |-> Q(1, 20)],
      [name |-> "Base", growthRate |-> Q(3, 100)],
      [name |-> "Bear", growthRate |-> Q(1, 100)]>>

\* const scenarios = [Bear 0.01, Base 0.03, Bull 0.05]
scenarioList ==
    <<[name |-> "Bear", growthRate |-> Q(1, 100)],
      [name |-> "Base", growthRate |-> Q(3, 100)],
      [name |-> "Bull", growthRate |-> Q(1, 20)]>>

\* enterpriseValue * 1000000: "Convert to actual dollars"
DollarsPerMillion == 1000000

\* the body of scenarios.map(scenario => ...)
scenarioResult(scenario, financials, inputs, wacc) ==
    LET projectedFCFs ==
            projectFCF(financials.freeCashFlow, scenario.growthRate, inputs.forecastYears)
        terminalValue ==
            calculateTerminalValue(At(projectedFCFs, Len(projectedFCFs) - 1),
                                   inputs.terminalGrowthRate, wacc)
        presentValues == presentValuesOf(projectedFCFs, wacc)
        terminalPV ==
            Div(terminalValue, Pow(Add(Num(1), wacc), inputs.forecastYears))
        enterpriseValue == Add(Sum(presentValues), terminalPV)
        equityValue == Sub(enterpriseValue, financials.totalDebt)
        pricePerShare == Div(equityValue, financials.sharesOutstanding)
        impliedReturn ==
            Div(Sub(pricePerShare, financials.currentPrice), financials.currentPrice)
    IN  [name |-> scenario.name,
         growthRate |-> scenario.growthRate,
         enterpriseValue |-> Mul(enterpriseValue, Num(DollarsPerMillion)),
         equityValue |-> Mul(equityValue, Num(DollarsPerMillion)),
         pricePerShare |-> pricePerShare,
         impliedReturn |-> impliedReturn]

runDCFAnalysis(financials, inputs) ==
    LET wacc == calculateWACC(financials, inputs)
    IN  [j \in 1..Len(scenarioList) |->
            scenarioResult(scenarioList[j], financials, inputs, wacc)]

\* ------------------------------------------------------------------------
\* components/DCFCalculator.tsx
\* ------------------------------------------------------------------------
initialRevenue == 100000
calculatorShares == 1000

\* the loop that fills projectedRevenues: i runs from 0 to forecastYears - 1
RECURSIVE projectedRevenuesFrom(_, _, _, _)
projectedRevenuesFrom(currentRevenue, revenueGrowthRates, i, forecastYears) ==
    IF i >= forecastYears THEN <<>>
    ELSE LET next == Mul(currentRevenue, Add(Num(1), At(revenueGrowthRates, i)))
         IN  <<next>> \o projectedRevenuesFrom(next, revenueGrowthRates, i + 1, forecastYears)

\* free cash flows taken to be the whole of NOPAT
calculatorFCFsAsNOPAT(projectedRevenues, operatingMargins, taxRate) ==
    [y \in 1..Len(projectedRevenues) |->
        LET operatingIncome == Mul(projectedRevenues[y], At(operatingMargins, y - 1))
        IN  Sub(operatingIncome, Mul(operatingIncome, taxRate))]

\* projectedRevenues.map((revenue, index) => ... nopat * 0.85)
calculatorFCFs(projectedRevenues, operatingMargins, taxRate) ==
    [y \in 1..Len(projectedRevenues) |->
        LET operatingIncome == Mul(projectedRevenues[y], At(operatingMargins, y - 1))
            taxExpense == Mul(operatingIncome, taxRate)
            nopat == Sub(operatingIncome, taxExpense)
        IN  Mul(nopat, Q(17, 20))]

DCFCalculator(d) ==
    LET projectedRevenues ==
            projectedRevenuesFrom(Num(initialRevenue), d.revenueGrowthRates, 0, d.forecastYears)
        projectedFreeCashFlows ==
            calculatorFCFs(projectedRevenues, d.operatingMargins, d.taxRate)
        marketRiskPremium == Sub(d.marketReturn, d.riskFreeRate)
        beta == Q(6, 5)
        costOfEquity == Add(d.riskFreeRate, Mul(beta, marketRiskPremium))
        wacc == costOfEquity
        finalYearFCF == At(projectedFreeCashFlows, Len(projectedFreeCashFlows) - 1)
        terminalFCF == Mul(finalYearFCF, Add(Num(1), d.terminalGrowthRate))
        terminalValue == Div(terminalFCF, Sub(wacc, d.terminalGrowthRate))
        presentValueOfCashFlows == Sum(presentValuesOf(projectedFreeCashFlows, wacc))
        presentValueOfTerminalValue ==
            Div(terminalValue, Pow(Add(Num(1), wacc), d.forecastYears))
        enterpriseValue == Add(presentValueOfCashFlows, presentValueOfTerminalValue)
        equityValue == enterpriseValue
        fairValuePerShare == Div(equityValue, Num(calculatorShares))
    IN  [enterpriseValue |-> enterpriseValue,
         equityValue |-> equityValue,
         fairValuePerShare |-> fairValuePerShare,
         wacc |-> wacc,
         terminalValue |-> terminalValue,
         projectedFreeCashFlows |-> projectedFreeCashFlows]

\* ------------------------------------------------------------------------
\* utils/dcfCalculator.ts
\* ------------------------------------------------------------------------
utilsInitialRevenue == 1000
utilsShares == 100

\* x || dflt on a number or undefined: 0, -0, NaN and undefined give dflt
OrDefault(x, dflt) ==
    IF IsNaN(x) \/ IsZero(x) THEN dflt ELSE x

\* the loop over year = 0 .. forecastYears - 1 that pushes fcf
RECURSIVE utilsFCFsFrom(_, _, _, _)
utilsFCFsFrom(currentRevenue, d, year, forecastYears) ==
    IF year >= forecastYears THEN <<>>
    ELSE LET growthRate == OrDefault(At(d.revenueGrowthRates, year), Q(1, 20))
             operatingMargin == OrDefault(At(d.operatingMargins, year), Q(3, 20))
             revenue == Mul(currentRevenue, Add(Num(1), growthRate))
             operatingIncome == Mul(revenue, operatingMargin)
             taxPayment == Mul(operatingIncome, d.taxRate)
             nopat == Sub(operatingIncome, taxPayment)
             capex == Mul(revenue, Q(1, 20))
             changeInWorkingCapital == Mul(revenue, Q(1, 50))
             fcf == Sub(Sub(nopat, capex), changeInWorkingCapital)
         IN  <<fcf>> \o utilsFCFsFrom(revenue, d, year + 1, forecastYears)

utilsCalculateDCF(d) ==
    LET beta == Q(6, 5)
        debtToEquity == Q(3, 10)
        costOfEquity ==
            Add(d.riskFreeRate, Mul(beta, Sub(d.marketReturn, d.riskFreeRate)))
        costOfDebt == Add(d.riskFreeRate, Q(1, 50))
        wacc ==
            Add(Mul(costOfEquity, Div(Num(1), Add(Num(1), debtToEquity))),
                Mul(Mul(costOfDebt, Sub(Num(1), d.taxRate)),
                    Div(debtToEquity, Add(Num(1), debtToEquity))))
        projectedFreeCashFlows ==
            utilsFCFsFrom(Num(utilsInitialRevenue), d, 0, d.forecastYears)
        finalYearFCF == At(projectedFreeCashFlows, Len(projectedFreeCashFlows) - 1)
        terminalValue ==
            Div(Mul(finalYearFCF, Add(Num(1), d.terminalGrowthRate)),
                Sub(wacc, d.terminalGrowthRate))
        presentValueOfFCFs == Sum(presentValuesOf(projectedFreeCashFlows, wacc))
        presentValueOfTerminalValue ==
            Div(terminalValue, Pow(Add(Num(1), wacc), d.forecastYears))
        enterpriseValue == Add(presentValueOfFCFs, presentValueOfTerminalValue)
        equityValue == enterpriseValue
        fairValuePerShare == Div(equityValue, Num(utilsShares))
    IN  [enterpriseValue |-> enterpriseValue,
         equityValue |-> equityValue,
         fairValuePerShare |-> fairValuePerShare,
         wacc |-> wacc,
         terminalValue |-> terminalValue,
         projectedFreeCashFlows |-> projectedFreeCashFlows]

\* ------------------------------------------------------------------------
\* State: one analysis request, the objects it hands to a calculator and
\* what the calls returned
\* ------------------------------------------------------------------------
VARIABLES
    entry,        \* the calculator the request goes to
    data,         \* the financial profile object handed to calculateDCF / calculateDDM
    inputs,       \* the ValuationInputs of the request
    supplied,     \* the profile as the ingestion layer supplied it (never written)
    newestFirst,  \* TRUE when the supplier orders the series most recent year first
    dcf,          \* outcome of the last calculateDCF call
    ddm,          \* outcome of the last calculateDDM call
    dcfRuns,      \* number of calculateDCF calls on this profile object
    ddmRuns,      \* number of calculateDDM calls on this profile object
    financials,   \* the CompanyFinancials handed to runDCFAnalysis
    fdsInputs,    \* the DCFInputs handed to runDCFAnalysis
    scenarios,    \* outcome of runDCFAnalysis
    dcfData,      \* the DCFInputData handed to DCFCalculator / utils calculateDCF
    calc,         \* outcome of DCFCalculator or of utils calculateDCF
    valuation,    \* the DCFResults and DDMResults handed to generateRecommendation
    recommendation,  \* outcome of generateRecommendation
    page,         \* page-level ComprehensiveValuationAnalyzer: its state and its run
    analyzer,     \* component-level ComprehensiveValuationAnalyzer: state and run
    edge          \* alpha-vantage edge function: a request and how it is served

vars ==
    <<entry, data, inputs, supplied, newestFirst, dcf, ddm, dcfRuns, ddmRuns,
      financials, fdsInputs, scenarios, dcfData, calc, valuation, recommendation,
      page, analyzer, edge>>

\* an object that is not there: no call made yet, or not part of this request
Null == [outcome |-> "none"]

\* a call that returned v (none of the calculators has a throw statement)
Returned(v) == [outcome |-> "returned", value |-> v]

\* bounds of the enumerated inputs
MaxHistory == 3
MaxDividends == 4
MaxForecastYears == 2
MaxRuns == 2

\* all sequences over S of length lo..hi
SeqsOf(S, lo, hi) ==
    UNION {[1..n -> S] : n \in lo..hi}

CashFromOpsValues == {Num(2), Num(3)}
CapexValue == Num(-1)
DividendValues == {Num(0), Num(1), Num(2)}
\* the dividends row of the sample CSV: 2.50, 2.40, 2.30, 2.20, 2.10
SampleDividends ==
    <<Q(250, 100), Q(240, 100), Q(230, 100), Q(220, 100), Q(210, 100)>>

TerminalGrowthRates == {Num(0), Q(1, 10), Q(1, 5)}

\* capex as long as cashFromOps, or one entry short of it
CapexFor(cashFromOps) ==
    {[i \in 1..n |-> CapexValue] :
        n \in {Len(cashFromOps), IF Len(cashFromOps) > 0 THEN Len(cashFromOps) - 1 ELSE 0}}

\* a paysDividends flag that only looks at the length of the series
paysDividendsIfAny(dividends) ==
    Len(dividends) > 0

\* paysDividends as the ingestion computes it
\* (dividends.length > 0 && dividends.some(d => d > 0))
paysDividendsOf(dividends) ==
    Len(dividends) > 0 /\ \E i \in 1..Len(dividends) : Gt(dividends[i], Num(0))

Profile(cfo, cpx, divs, shares, price, mcap, debt, interest, beta) ==
    [cashFromOps |-> cfo,
     capex |-> cpx,
     dividends |-> divs,
     sharesOutstanding |-> shares,
     currentPrice |-> price,
     marketCap |-> mcap,
     totalDebt |-> debt,
     interestExpense |-> interest,
     beta |-> beta,
     paysDividends |-> paysDividendsOf(divs)]

Assumptions(rf, mr, tax, g, years) ==
    [riskFreeRate |-> rf,
     marketReturn |-> mr,
     taxRate |-> tax,
     terminalGrowthRate |-> g,
     forecastYears |-> years]

\* requests to AdvancedValuationService that vary what calculateDCF reads
InitDCF ==
    \E cfo \in SeqsOf(CashFromOpsValues, 0, MaxHistory) :
    \E cpx \in CapexFor(cfo) :
    \E price \in {Num(0), Num(1)}, mcap \in {Num(0), Num(1)},
       debt \in {Num(0), Num(1)}, interest \in {Num(0), Num(1)},
       g \in TerminalGrowthRates, years \in 1..MaxForecastYears :
        /\ entry = "valuation"
        /\ data = Profile(cfo, cpx, <<Num(2), Num(1), Num(1)>>, Num(2), price,
                          mcap, debt, interest, Num(2))
        /\ inputs = Assumptions(Q(1, 10), Q(1, 5), Q(1, 5), g, years)
        /\ newestFirst = TRUE
        /\ financials = Null /\ fdsInputs = Null /\ dcfData = Null

\* requests to AdvancedValuationService that vary what calculateDDM reads
InitDDM ==
    \E divs \in SeqsOf(DividendValues, 0, MaxDividends) \cup {SampleDividends} :
    \E price \in {Num(0), Num(1)}, mr \in {Q(1, 5), Num(1)}, order \in BOOLEAN :
        /\ entry = "valuation"
        /\ data = Profile(<<Num(2), Num(1)>>, <<CapexValue, CapexValue>>, divs,
                          Num(2), price, Num(1), Num(1), Num(1), Num(1))
        /\ inputs = Assumptions(Q(1, 10), mr, Q(1, 5), Q(1, 10), 1)
        /\ newestFirst = order
        /\ financials = Null /\ fdsInputs = Null /\ dcfData = Null

\* riskFreeRate and terminalGrowthRate of a request: a usual risk-free rate
\* with terminal growth below and above the discount rate, and rates a caller
\* is free to pass that put the discount rate below -100%
ScenarioRates ==
    {<<Q(1, 8), Num(0)>>, <<Q(1, 8), Q(1, 10)>>, <<Q(1, 8), Q(1, 4)>>,
     <<Q(-13, 4), Num(-3)>>}

\* requests to FinancialDataService.runDCFAnalysis
InitScenarios ==
    \E fcf \in {Num(-1), Num(1), Num(2)}, price \in {Num(0), Num(1)},
       mcap \in {Num(0), Num(2)}, debt \in {Num(0), Num(1)},
       interest \in {Num(0), Num(1)},
       rates \in ScenarioRates, years \in 1..MaxForecastYears :
        /\ entry = "scenarios"
        /\ financials =
             [marketCap |-> mcap, beta |-> Num(1), totalDebt |-> debt,
              interestExpense |-> interest, freeCashFlow |-> fcf,
              sharesOutstanding |-> Num(2), currentPrice |-> price,
              taxRate |-> Q(1, 4)]
        /\ fdsInputs =
             [riskFreeRate |-> rates[1], marketRiskPremium |-> Q(1, 4),
              terminalGrowthRate |-> rates[2], forecastYears |-> years,
              taxRate |-> Q(1, 4)]
        /\ newestFirst = TRUE
        /\ data = Null /\ inputs = Null /\ dcfData = Null

\* rate arrays as long as the horizon, or one entry short of it
RateArrays(S, years) ==
    SeqsOf(S, years - 1, years)

DCFInputData(growth, margins, rf, mr, tax, g, years) ==
    [revenueGrowthRates |-> growth,
     operatingMargins |-> margins,
     riskFreeRate |-> rf,
     marketReturn |-> mr,
     taxRate |-> tax,
     terminalGrowthRate |-> g,
     forecastYears |-> years]

\* requests to the DCFCalculator component
InitCalculator ==
    \E years \in 1..MaxForecastYears :
    \E growth \in RateArrays({Num(0), Q(1, 2)}, years),
       margins \in RateArrays({Num(0), Q(1, 2)}, years),
       rates \in {<<Q(1, 25), Q(9, 100)>>, <<Q(1, 5), Q(1, 5)>>},
       g \in TerminalGrowthRates :
        /\ entry = "calculator"
        /\ dcfData = DCFInputData(growth, margins, rates[1], rates[2], Q(1, 5), g, years)
        /\ newestFirst = TRUE
        /\ data = Null /\ inputs = Null /\ financials = Null /\ fdsInputs = Null

\* requests to utils calculateDCF
InitUtils ==
    \E years \in 1..MaxForecastYears :
    \E growth \in RateArrays({Num(0), Q(1, 2)}, years),
       margins \in RateArrays({Num(0), Q(1, 2)}, years),
       rates \in {<<Q(2, 25), Q(21, 100)>>, <<Q(13, 100), Q(1, 10)>>},
       g \in TerminalGrowthRates :
        /\ entry = "utils"
        /\ dcfData = DCFInputData(growth, margins, rates[1], rates[2], Q(1, 5), g, years)
        /\ newestFirst = TRUE
        /\ data = Null /\ inputs = Null /\ financials = Null /\ fdsInputs = Null

\* upside figures on and around the thresholds of the recommendation
UpsideValues ==
    {Q(-10, 100), Q(-5, 100), Num(0), Q(5, 100), Q(10, 100), Q(15, 100),
     Q(20, 100), Q(25, 100)}

\* the two reasons calculateDDM gives for a result that is not applicable
DDMReasons ==
    {"Company does not pay dividends or insufficient dividend history",
     "Dividend growth rate exceeds cost of equity - DDM not applicable"}

\* results handed to generateRecommendation
InitRecommendation ==
    \E dcfUpside \in UpsideValues, ddmUpside \in UpsideValues :
    \E ddmResults \in {[upside |-> ddmUpside, applicable |-> TRUE]}
                         \cup {[upside |-> ddmUpside, applicable |-> FALSE,
                                 reason |-> r] : r \in DDMReasons} :
        /\ entry = "recommendation"
        /\ valuation = [dcf |-> [upside |-> dcfUpside], ddm |-> ddmResults]
        /\ newestFirst = TRUE
        /\ data = Null /\ inputs = Null
        /\ financials = Null /\ fdsInputs = Null /\ dcfData = Null

\* the page-level ComprehensiveValuationAnalyzer ------------------------------

MaxAnalyses == 3

\* no handleDataSourceSelected call is in progress
NoRun == [source |-> "none"]

\* the four requests of the 'api' branch, in the order they are awaited
apiFetches == <<"overview", "income_statement", "balance_sheet", "cash_flow">>

\* the message thrown when the response of a request is not ok and its body
\* carries no error text
failureMessage(dataType) ==
    CASE dataType = "overview" -> "Failed to fetch company overview"
      [] dataType = "income_statement" -> "Failed to fetch income statement"
      [] dataType = "balance_sheet" -> "Failed to fetch balance sheet"
      [] dataType = "cash_flow" -> "Failed to fetch cash flow statement"

\* the synchronous head of handleDataSourceSelected: setDataSource ..
\* setIsLoading(true); the call then waits for its 500 ms timer. isLoading
\* changes, so the auto-trigger effect is due after the render
handleDataSourceSelected(p, source, payload, auto) ==
    [p EXCEPT !.dataSource = source,
              !.results = "null",
              !.error = "null",
              !.isLoading = TRUE,
              !.effectDue = (~p.isLoading) \/ p.results # "null" \/ p.effectDue,
              !.run = [source |-> source, payload |-> payload, awaiting |-> "delay"],
              !.runs = p.runs + 1,
              !.autoStarts = p.autoStarts + (IF auto THEN 1 ELSE 0)]

\* the tail of handleDataSourceSelected: what the try or the catch block set,
\* then finally setIsLoading(false)
settled(p, results, error) ==
    [p EXCEPT !.results = results,
              !.error = error,
              !.isLoading = FALSE,
              !.effectDue = TRUE,
              !.run = NoRun]

\* the page as mounted by Valuation for a URL with or without ?ticker=
InitPage ==
    \E ticker \in {"", "AAPL"} :
        /\ entry = "page"
        /\ page = [ticker |-> ticker,
                   tickerRead |-> FALSE,
                   initialTicker |-> "",
                   dataSource |-> "null",
                   results |-> "null",
                   error |-> "null",
                   isLoading |-> FALSE,
                   effectDue |-> TRUE,
                   run |-> NoRun,
                   runs |-> 0,
                   autoStarts |-> 0]
        /\ newestFirst = TRUE
        /\ data = Null /\ inputs = Null /\ financials = Null /\ fdsInputs = Null
        /\ dcfData = Null /\ valuation = Null

\* the component-level ComprehensiveValuationAnalyzer ---------------------------

\* steps.length
StepCount == 8

\* useState<ComprehensiveValuation | null>(null)
NoValuation == [source |-> "none", analysis |-> 0]

\* setProgress((i + 1) * (100 / steps.length))
progressOf(i) ==
    Mul(Num(i + 1), Div(Num(100), Num(StepCount)))

\* a handler that drops the stored valuation when the analysis fails
settledClearingValuation(a, outcome, comprehensiveValuation) ==
    [a EXCEPT !.valuation =
                  IF outcome = "completed" THEN comprehensiveValuation ELSE NoValuation,
              !.isAnalyzing = FALSE,
              !.progress = Num(100),
              !.outcome = outcome,
              !.run = NoRun]

\* the tail of the handler: setValuation on success, the catch block on
\* failure, then finally setIsAnalyzing(false); setProgress(100)
settledAnalysis(a, outcome, comprehensiveValuation) ==
    [a EXCEPT !.valuation =
                  IF outcome = "completed" THEN comprehensiveValuation ELSE @,
              !.isAnalyzing = FALSE,
              !.progress = Num(100),
              !.outcome = outcome,
              !.run = NoRun]

\* the head of the handler, up to the first await of the loop:
\* setDataSource, setIsAnalyzing(true), setProgress(0), then step i = 0
analysisStarted(a, source) ==
    [a EXCEPT !.dataSource = source,
              !.isAnalyzing = TRUE,
              !.progress = progressOf(0),
              !.shown = <<Num(0), progressOf(0)>>,
              !.previous = a.valuation,
              !.outcome = "none",
              !.run = [source |-> source, i |-> 0, awaiting |-> "timer"],
              !.runs = a.runs + 1]

\* the component as mounted
InitAnalyzer ==
    /\ entry = "analyzer"
    /\ analyzer = [isAnalyzing |-> FALSE,
                   progress |-> Num(0),
                   valuation |-> NoValuation,
                   dataSource |-> "null",
                   shown |-> <<>>,
                   previous |-> NoValuation,
                   outcome |-> "none",
                   run |-> NoRun,
                   runs |-> 0]
    /\ newestFirst = TRUE
    /\ data = Null /\ inputs = Null /\ financials = Null /\ fdsInputs = Null
    /\ dcfData = Null /\ valuation = Null

\* the alpha-vantage edge function ---------------------------------------------

\* new Response(body, { status, ... }): the status and the parsed JSON body
Response(status, body) ==
    [status |-> status, body |-> body]

\* JSON.stringify({ error: message })
errorBody(message) ==
    [kind |-> "error", error |-> message]

\* the switch on dataType: the Alpha Vantage function of a supported
\* dataType, '' for any other
functionNameOf(dataType) ==
    CASE dataType = "overview" -> "OVERVIEW"
      [] dataType = "income_statement" -> "INCOME_STATEMENT"
      [] dataType = "balance_sheet" -> "BALANCE_SHEET"
      [] dataType = "cash_flow" -> "CASH_FLOW"
      [] dataType = "earnings" -> "EARNINGS"
      [] OTHER -> ""

\* a handler that looks for the API key before it looks at the fields
serveKeyFirst(req, apiKeyConfigured) ==
    IF req.method = "OPTIONS"
    THEN [fetch |-> "", response |-> Response(200, [kind |-> "null", error |-> ""])]
    ELSE IF ~req.json.valid
    THEN [fetch |-> "", response |-> Response(500, errorBody("Internal server error"))]
    ELSE IF ~apiKeyConfigured
    THEN [fetch |-> "",
          response |-> Response(500, errorBody("Alpha Vantage API key not configured"))]
    ELSE IF req.json.ticker = "" \/ req.json.dataType = ""
    THEN [fetch |-> "", response |-> Response(400, errorBody("Missing ticker or dataType"))]
    ELSE IF functionNameOf(req.json.dataType) = ""
    THEN [fetch |-> "", response |-> Response(400, errorBody("Invalid dataType"))]
    ELSE [fetch |-> functionNameOf(req.json.dataType),
          response |-> Response(0, [kind |-> "none", error |-> ""])]

\* the handler up to its await fetch(url): the response it returns without
\* contacting Alpha Vantage, or the function it queries. A Response built
\* without a status has status 200; a req.json() that rejects is caught
serve(req, apiKeyConfigured) ==
    IF req.method = "OPTIONS"
    THEN [fetch |-> "", response |-> Response(200, [kind |-> "null", error |-> ""])]
    ELSE IF ~req.json.valid
    THEN [fetch |-> "", response |-> Response(500, errorBody("Internal server error"))]
    ELSE IF req.json.ticker = "" \/ req.json.dataType = ""
    THEN [fetch |-> "", response |-> Response(400, errorBody("Missing ticker or dataType"))]
    ELSE IF ~apiKeyConfigured
    THEN [fetch |-> "",
          response |-> Response(500, errorBody("Alpha Vantage API key not configured"))]
    ELSE IF functionNameOf(req.json.dataType) = ""
    THEN [fetch |-> "", response |-> Response(400, errorBody("Invalid dataType"))]
    ELSE [fetch |-> functionNameOf(req.json.dataType),
          response |-> Response(0, [kind |-> "none", error |-> ""])]

\* the handler after its await fetch(url): the upstream call or its json()
\* rejected, or the upstream body carries 'Error Message', 'Note', or data
afterFetch(upstream) ==
    IF ~upstream.resolved
    THEN Response(500, errorBody("Internal server error"))
    ELSE IF upstream.errorMessage
    THEN Response(400, errorBody("Invalid API call"))
    ELSE IF upstream.note
    THEN Response(429, errorBody("API call frequency limit reached. Please try again later."))
    ELSE Response(200, [kind |-> "data", error |-> ""])

\* the JSON bodies of the requests: not parseable, or an object whose ticker
\* and dataType are present or missing, dataType supported or not
RequestBodies ==
    {[valid |-> FALSE, ticker |-> "", dataType |-> ""]}
    \cup [valid : {TRUE},
          ticker : {"", "AAPL"},
          dataType : {"", "overview", "income_statement", "balance_sheet",
                      "cash_flow", "earnings", "quote"}]

\* what Alpha Vantage may answer
UpstreamAnswers ==
    {[resolved |-> FALSE, errorMessage |-> FALSE, note |-> FALSE]}
    \cup [resolved : {TRUE}, errorMessage : BOOLEAN, note : BOOLEAN]

\* a request arriving at the function, the API key configured or not
InitEdge ==
    \E method \in {"OPTIONS", "POST"}, json \in RequestBodies,
       apiKeyConfigured \in BOOLEAN :
        /\ entry = "edge"
        /\ edge = [request |-> [method |-> method, json |-> json],
                   apiKeyConfigured |-> apiKeyConfigured,
                   served |-> FALSE,
                   fetch |-> "",
                   upstream |-> [resolved |-> FALSE, errorMessage |-> FALSE,
                                 note |-> FALSE],
                   response |-> Response(0, [kind |-> "none", error |-> ""])]
        /\ newestFirst = TRUE
        /\ data = Null /\ inputs = Null /\ financials = Null /\ fdsInputs = Null
        /\ dcfData = Null /\ valuation = Null

Init ==
    /\ \/ /\ InitDCF \/ InitDDM \/ InitScenarios \/ InitCalculator \/ InitUtils
          /\ valuation = Null
          /\ page = Null /\ analyzer = Null /\ edge = Null
       \/ InitRecommendation /\ page = Null /\ analyzer = Null /\ edge = Null
       \/ InitPage /\ analyzer = Null /\ edge = Null
       \/ InitAnalyzer /\ page = Null /\ edge = Null
       \/ InitEdge /\ page = Null /\ analyzer = Null
    /\ recommendation = Null
    /\ supplied = data
    /\ dcf = Null
    /\ ddm = Null
    /\ dcfRuns = 0
    /\ ddmRuns = 0
    /\ scenarios = Null
    /\ calc = Null

\* a calculateDCF that reverses the history in place before reading it,
\* the way calculateDDM does with the dividends
CalculateDCFReversing ==
    /\ entry = "valuation"
    /\ dcfRuns < MaxRuns
    /\ data' = [data EXCEPT !.cashFromOps = Reverse(@)]
    /\ dcf' = Returned(calculateDCF(data', inputs))
    /\ dcfRuns' = dcfRuns + 1
    /\ UNCHANGED <<entry, inputs, supplied, newestFirst, ddm, ddmRuns,
                   financials, fdsInputs, scenarios, dcfData, calc,
                   valuation, recommendation, page, analyzer, edge>>

\* const dcfResults = this.calculateDCF(mockData, inputs)
CalculateDCF ==
    /\ entry = "valuation"
    /\ dcfRuns < MaxRuns
    /\ dcf' = Returned(calculateDCF(data, inputs))
    /\ dcfRuns' = dcfRuns + 1
    /\ UNCHANGED <<entry, data, inputs, supplied, newestFirst, ddm, ddmRuns,
                   financials, fdsInputs, scenarios, dcfData, calc,
                   valuation, recommendation, page, analyzer, edge>>

\* const ddmResults = this.calculateDDM(mockData, inputs)
CalculateDDM ==
    /\ entry = "valuation"
    /\ ddmRuns < MaxRuns
    /\ ddm' = Returned(calculateDDM(data, inputs).result)
    /\ data' = calculateDDM(data, inputs).data
    /\ ddmRuns' = ddmRuns + 1
    /\ UNCHANGED <<entry, inputs, supplied, newestFirst, dcf, dcfRuns,
                   financials, fdsInputs, scenarios, dcfData, calc,
                   valuation, recommendation, page, analyzer, edge>>

\* FinancialDataService.runDCFAnalysis(financials, inputs)
RunDCFAnalysis ==
    /\ entry = "scenarios"
    /\ scenarios = Null
    /\ scenarios' = Returned(runDCFAnalysis(financials, fdsInputs))
    /\ UNCHANGED <<entry, data, inputs, supplied, newestFirst, dcf, ddm, dcfRuns,
                   ddmRuns, financials, fdsInputs, dcfData, calc,
                   valuation, recommendation, page, analyzer, edge>>

\* setResults(DCFCalculator(dcfData))
RunDCFCalculator ==
    /\ entry = "calculator"
    /\ calc = Null
    /\ calc' = Returned(DCFCalculator(dcfData))
    /\ UNCHANGED <<entry, data, inputs, supplied, newestFirst, dcf, ddm, dcfRuns,
                   ddmRuns, financials, fdsInputs, scenarios, dcfData,
                   valuation, recommendation, page, analyzer, edge>>

\* utils calculateDCF(data)
RunUtilsCalculateDCF ==
    /\ entry = "utils"
    /\ calc = Null
    /\ calc' = Returned(utilsCalculateDCF(dcfData))
    /\ UNCHANGED <<entry, data, inputs, supplied, newestFirst, dcf, ddm, dcfRuns,
                   ddmRuns, financials, fdsInputs, scenarios, dcfData,
                   valuation, recommendation, page, analyzer, edge>>

\* const recommendation = this.generateRecommendation(dcfResults, ddmResults)
GenerateRecommendation ==
    /\ entry = "recommendation"
    /\ recommendation = Null
    /\ recommendation' =
         Returned(generateRecommendation(valuation.dcf, valuation.ddm))
    /\ UNCHANGED <<entry, data, inputs, supplied, newestFirst, dcf, ddm, dcfRuns,
                   ddmRuns, financials, fdsInputs, scenarios, dcfData, calc,
                   valuation, page, analyzer, edge>>

\* what no step of the page touches
calculatorsUnchanged ==
    UNCHANGED <<entry, data, inputs, supplied, newestFirst, dcf, ddm, dcfRuns,
                ddmRuns, financials, fdsInputs, scenarios, dcfData, calc,
                valuation, recommendation, analyzer, edge>>

\* Valuation: useEffect(() => { ... setInitialTicker(ticker) }, [searchParams])
\* it runs after the effects of the analyzer it renders
ValuationEffect ==
    /\ entry = "page"
    /\ ~page.tickerRead
    /\ ~page.effectDue
    /\ page' = [page EXCEPT !.tickerRead = TRUE,
                            !.initialTicker =
                                IF page.ticker # "" THEN page.ticker ELSE @,
                            !.effectDue = page.ticker # ""]
    /\ calculatorsUnchanged

\* useEffect(() => { if (initialTicker && !isLoading && !results) ... },
\*           [initialTicker, isLoading, results])
\* it runs after the first render and after every render in which one of its
\* dependencies has changed, before any later event is handled
AutoTriggerEffect ==
    /\ entry = "page"
    /\ page.effectDue
    /\ IF page.initialTicker # "" /\ ~page.isLoading /\ page.results = "null"
       THEN /\ page.runs < MaxAnalyses
            /\ page' = handleDataSourceSelected([page EXCEPT !.effectDue = FALSE],
                                                "api", "ticker", TRUE)
       ELSE page' = [page EXCEPT !.effectDue = FALSE]
    /\ calculatorsUnchanged

\* a button of the DataSourceSelector, enabled while isLoading is false
userCanStart ==
    /\ entry = "page"
    /\ ~page.effectDue
    /\ ~page.isLoading
    /\ page.runs < MaxAnalyses

\* DataSourceSelector.handleApiDataFetch with a ticker typed in
HandleApiDataFetch ==
    /\ userCanStart
    /\ page' = handleDataSourceSelected(page, "api", "ticker", FALSE)
    /\ calculatorsUnchanged

\* DataSourceSelector.handleFMPDataFetch with a ticker typed in
HandleFMPDataFetch ==
    /\ userCanStart
    /\ page' = handleDataSourceSelected(page, "fmp", "ticker", FALSE)
    /\ calculatorsUnchanged

\* DataSourceSelector.handleCsvUpload: the parsed file has the Revenue and
\* Net Income rows, or lacks one of them
HandleCsvUpload ==
    /\ userCanStart
    /\ \E payload \in {"complete", "incomplete"} :
          page' = handleDataSourceSelected(page, "csv", payload, FALSE)
    /\ calculatorsUnchanged

\* the 500 ms timer of a run has fired: the 'api' branch issues its first
\* request, the 'csv' branch validates and computes, any other source falls
\* through both branches
AfterDelay ==
    /\ entry = "page"
    /\ ~page.effectDue
    /\ page.run # NoRun
    /\ page.run.awaiting = "delay"
    /\ page' =
         IF page.run.source = "api"
         THEN [page EXCEPT !.run.awaiting = apiFetches[1]]
         ELSE IF page.run.source = "csv"
         THEN IF page.run.payload = "incomplete"
              THEN settled(page, "null",
                           "CSV data must contain Revenue and Net Income columns")
              ELSE settled(page, "DCFResults", "null")
         ELSE settled(page, page.results, page.error)
    /\ calculatorsUnchanged

\* the response of the request a run awaits has arrived, ok or not
FetchReturns ==
    /\ entry = "page"
    /\ ~page.effectDue
    /\ page.run # NoRun
    /\ \E i \in 1..Len(apiFetches) :
          /\ page.run.awaiting = apiFetches[i]
          /\ \E ok \in BOOLEAN :
                page' =
                  IF ~ok THEN settled(page, "null", failureMessage(apiFetches[i]))
                  ELSE IF i < Len(apiFetches)
                  THEN [page EXCEPT !.run.awaiting = apiFetches[i + 1]]
                  ELSE settled(page, "DCFResults", "null")
    /\ calculatorsUnchanged

\* what no step of the component-level analyzer touches
pageUnchanged ==
    UNCHANGED <<entry, data, inputs, supplied, newestFirst, dcf, ddm, dcfRuns,
                ddmRuns, financials, fdsInputs, scenarios, dcfData, calc,
                valuation, recommendation, page, edge>>

\* onDataSourceSelected={handleDataSourceSelected} isLoading={isAnalyzing}:
\* one of the selector's handlers calls the component's handler
SelectDataSource ==
    /\ entry = "analyzer"
    /\ ~analyzer.isAnalyzing
    /\ analyzer.runs < MaxAnalyses
    /\ \E source \in {"api", "csv", "fmp"} :
          analyzer' = analysisStarted(analyzer, source)
    /\ pageUnchanged

\* the 1200 ms timer of step i has fired: the loop goes on to step i + 1, or
\* ends; after the loop the 'api' branch awaits
\* getProcessedFinancialData, the other branch calls processCSVData, which
\* returns or throws, and then awaits getComprehensiveValuation
StepTimerFires ==
    /\ entry = "analyzer"
    /\ analyzer.run # NoRun
    /\ analyzer.run.awaiting = "timer"
    /\ IF analyzer.run.i + 1 < StepCount
       THEN analyzer' =
              [analyzer EXCEPT !.run.i = @ + 1,
                               !.progress = progressOf(analyzer.run.i + 1),
                               !.shown = Append(@, progressOf(analyzer.run.i + 1))]
       ELSE IF analyzer.run.source = "api"
       THEN analyzer' = [analyzer EXCEPT !.run.awaiting = "financialData"]
       ELSE \E ok \in BOOLEAN :
              analyzer' =
                IF ok THEN [analyzer EXCEPT !.run.awaiting = "valuation"]
                ELSE settledAnalysis(analyzer, "failed", NoValuation)
    /\ pageUnchanged

\* AlphaVantageService.getProcessedFinancialData(ticker) has resolved or
\* rejected
FinancialDataReturns ==
    /\ entry = "analyzer"
    /\ analyzer.run # NoRun
    /\ analyzer.run.awaiting = "financialData"
    /\ \E ok \in BOOLEAN :
          analyzer' =
            IF ok THEN [analyzer EXCEPT !.run.awaiting = "valuation"]
            ELSE settledAnalysis(analyzer, "failed", NoValuation)
    /\ pageUnchanged

\* AdvancedValuationService.getComprehensiveValuation has resolved
ValuationReturns ==
    /\ entry = "analyzer"
    /\ analyzer.run # NoRun
    /\ analyzer.run.awaiting = "valuation"
    /\ analyzer' =
         settledAnalysis(analyzer, "completed",
                         [source |-> analyzer.run.source, analysis |-> analyzer.runs])
    /\ pageUnchanged

\* what no step of the edge function touches
clientUnchanged ==
    UNCHANGED <<entry, data, inputs, supplied, newestFirst, dcf, ddm, dcfRuns,
                ddmRuns, financials, fdsInputs, scenarios, dcfData, calc,
                valuation, recommendation, page, analyzer>>

\* serve(async (req) => ...): the handler runs up to its first response or
\* up to the upstream fetch
Serve ==
    /\ entry = "edge"
    /\ ~edge.served
    /\ edge' = [edge EXCEPT
                  !.served = TRUE,
                  !.fetch = serve(edge.request, edge.apiKeyConfigured).fetch,
                  !.response = serve(edge.request, edge.apiKeyConfigured).response]
    /\ clientUnchanged

\* const response = await fetch(url); const data = await response.json()
UpstreamReturns ==
    /\ entry = "edge"
    /\ edge.fetch # ""
    /\ edge.response.status = 0
    /\ \E upstream \in UpstreamAnswers :
          edge' = [edge EXCEPT !.upstream = upstream,
                               !.response = afterFetch(upstream)]
    /\ clientUnchanged

Next ==
    \/ GenerateRecommendation
    \/ CalculateDCF
    \/ CalculateDDM
    \/ RunDCFAnalysis
    \/ RunDCFCalculator
    \/ RunUtilsCalculateDCF
    \/ ValuationEffect
    \/ AutoTriggerEffect
    \/ HandleApiDataFetch
    \/ HandleFMPDataFetch
    \/ HandleCsvUpload
    \/ AfterDelay
    \/ FetchReturns
    \/ SelectDataSource
    \/ StepTimerFires
    \/ FinancialDataReturns
    \/ ValuationReturns
    \/ Serve
    \/ UpstreamReturns

Spec == Init /\ [][Next]_vars

\* ------------------------------------------------------------------------
\* Properties
\* ------------------------------------------------------------------------
DCFReturned == dcf.outcome = "returned"
DDMReturned == ddm.outcome = "returned"
ScenariosReturned == scenarios.outcome = "returned"
CalcReturned == calc.outcome = "returned"

\* C1: when wacc <= terminalGrowthRate every DCF computation fails with
\* NonConvergentTerminalValue: no calculator returns a result whose wacc is
\* at or below the terminal growth rate
C1_NonConvergentRejected ==
    /\ DCFReturned => ~Le(dcf.value.wacc, inputs.terminalGrowthRate)
    /\ ScenariosReturned =>
         ~Le(calculateWACC(financials, fdsInputs), fdsInputs.terminalGrowthRate)
    /\ CalcReturned => ~Le(calc.value.wacc, dcfData.terminalGrowthRate)

\* C2: with totalDebt == 0 and marketCapitalization > 0 the cost of capital
\* is computed without dividing by zero: costOfDebt = 0 and
\* wacc = costOfEquity
C2_ZeroDebtCostOfCapital ==
    /\ (DCFReturned /\ IsZero(data.totalDebt) /\ Gt(data.marketCap, Num(0))) =>
         /\ Eq(dcf.value.costOfDebt, Num(0))
         /\ Eq(dcf.value.wacc, dcf.value.costOfEquity)
    /\ (ScenariosReturned /\ IsZero(financials.totalDebt)
            /\ Gt(financials.marketCap, Num(0))) =>
         Eq(calculateWACC(financials, fdsInputs),
            Add(fdsInputs.riskFreeRate,
                Mul(financials.beta, fdsInputs.marketRiskPremium)))

\* C3: for valid inputs with wacc > terminalGrowthRate and
\* sharesOutstanding > 0 (totalDebt = 0, where wacc is the cost of equity,
\* and any history length included) the pricePerShare returned is finite
C3_FinitePricePerShare ==
    /\ (/\ DCFReturned
        /\ Ge(data.marketCap, Num(0)) /\ Ge(data.totalDebt, Num(0))
        /\ Gt(Add(data.marketCap, data.totalDebt), Num(0))
        /\ Gt(data.sharesOutstanding, Num(0))
        /\ \/ Gt(dcf.value.wacc, inputs.terminalGrowthRate)
           \/ /\ IsZero(data.totalDebt)
              /\ Gt(dcf.value.costOfEquity, inputs.terminalGrowthRate)) =>
         IsFinite(dcf.value.pricePerShare)
    /\ (/\ ScenariosReturned
        /\ Ge(financials.marketCap, Num(0)) /\ Ge(financials.totalDebt, Num(0))
        /\ Gt(Add(financials.marketCap, financials.totalDebt), Num(0))
        /\ Gt(financials.sharesOutstanding, Num(0))
        /\ \/ Gt(calculateWACC(financials, fdsInputs), fdsInputs.terminalGrowthRate)
           \/ /\ IsZero(financials.totalDebt)
              /\ Gt(Add(fdsInputs.riskFreeRate,
                        Mul(financials.beta, fdsInputs.marketRiskPremium)),
                    fdsInputs.terminalGrowthRate)) =>
         \A j \in 1..Len(scenarios.value) :
            IsFinite(scenarios.value[j].pricePerShare)

\* the dividend of the latest fiscal year of the history as supplied
LatestSuppliedDividend ==
    IF newestFirst THEN supplied.dividends[1]
    ELSE supplied.dividends[Len(supplied.dividends)]

\* C4: an applicable DDM result has nextYearDividend = mostRecentDividend *
\* (1 + avgDividendGrowth), mostRecentDividend being the dividend of the
\* latest fiscal year of the supplied history, and intrinsicValue =
\* nextYearDividend / (costOfEquity - avgDividendGrowth)
C4_NextYearDividend ==
    (DDMReturned /\ ddm.value.applicable) =>
        /\ ddm.value.nextYearDividend =
             Mul(LatestSuppliedDividend, Add(Num(1), ddm.value.avgDividendGrowth))
        /\ ddm.value.intrinsicValue =
             Div(ddm.value.nextYearDividend,
                 Sub(Add(inputs.riskFreeRate,
                         Mul(data.beta, Sub(inputs.marketReturn, inputs.riskFreeRate))),
                     ddm.value.avgDividendGrowth))

\* C5: calculateDCF and calculateDDM leave the profile they are given
\* unchanged, and a second DDM run on the same profile object returns the
\* DDMResult of the first
C5_ValuationIsPure ==
    [][/\ data' = data
       /\ (ddmRuns >= 1 /\ ddmRuns' = ddmRuns + 1) => ddm' = ddm]_vars

\* C6: a repeated calculateDCF call on the same profile object and the same
\* assumptions returns a result identical in every field to the one before
C6_DCFIdempotent ==
    [][(dcfRuns >= 1 /\ dcfRuns' = dcfRuns + 1) => dcf' = dcf]_vars

C6_Witness ==
    /\ dcfRuns = 2
    /\ ddmRuns >= 1
    /\ data # supplied
    /\ DCFReturned
    /\ IsFinite(dcf.value.pricePerShare)
    /\ ~IsZero(dcf.value.enterpriseValue)

\* C7: a valuation whose marketCapitalization + totalDebt <= 0 fails with
\* InvalidCapitalStructure: no WACC and no DCF result is returned for it
C7_InvalidCapitalStructureRejected ==
    /\ DCFReturned => ~Le(Add(data.marketCap, data.totalDebt), Num(0))
    /\ ScenariosReturned =>
         ~Le(Add(financials.marketCap, financials.totalDebt), Num(0))

\* C8: with currentPrice == 0 the upside (DCF upside, DDM upside, scenario
\* impliedReturn) is guarded: no returned result carries an infinite or
\* undefined upside
C8_UpsideGuarded ==
    /\ (DCFReturned /\ IsZero(data.currentPrice)) => IsFinite(dcf.value.upside)
    /\ (DDMReturned /\ IsZero(data.currentPrice)) => IsFinite(ddm.value.upside)
    /\ (ScenariosReturned /\ IsZero(financials.currentPrice)) =>
         \A j \in 1..Len(scenarios.value) :
            IsFinite(scenarios.value[j].impliedReturn)

\* C9: the history-based DCF fails with InsufficientHistory when fewer than
\* 2 historical data points exist: it returns no projection for them
C9_InsufficientHistoryRejected ==
    DCFReturned => Len(data.cashFromOps) >= 2

\* C10 as stated: in every DCF calculator the returned equityValue is the
\* returned enterpriseValue - totalDebt and the returned pricePerShare is
\* the returned equityValue / sharesOutstanding
C10_EquityBridgeAsStated ==
    /\ DCFReturned =>
         /\ dcf.value.equityValue = Sub(dcf.value.enterpriseValue, data.totalDebt)
         /\ dcf.value.pricePerShare =
              Div(dcf.value.equityValue, data.sharesOutstanding)
    /\ ScenariosReturned =>
         \A j \in 1..Len(scenarios.value) :
            /\ scenarios.value[j].equityValue =
                 Sub(scenarios.value[j].enterpriseValue, financials.totalDebt)
            /\ scenarios.value[j].pricePerShare =
                 Div(scenarios.value[j].equityValue, financials.sharesOutstanding)

\* C10 amended: AdvancedValuationService.calculateDCF returns equityValue =
\* enterpriseValue - totalDebt and pricePerShare = equityValue /
\* sharesOutstanding; runDCFAnalysis returns enterpriseValue and equityValue
\* scaled by 1,000,000, so equityValue = enterpriseValue - 1,000,000 *
\* totalDebt and pricePerShare = equityValue / (1,000,000 *
\* sharesOutstanding); DCFCalculator and utils calculateDCF deduct no debt
\* (equityValue = enterpriseValue) and divide by their fixed share counts
C10_EquityBridge ==
    /\ DCFReturned =>
         /\ dcf.value.equityValue = Sub(dcf.value.enterpriseValue, data.totalDebt)
         /\ dcf.value.pricePerShare =
              Div(dcf.value.equityValue, data.sharesOutstanding)
    /\ ScenariosReturned =>
         \A j \in 1..Len(scenarios.value) :
            /\ scenarios.value[j].equityValue =
                 Sub(scenarios.value[j].enterpriseValue,
                     Mul(financials.totalDebt, Num(DollarsPerMillion)))
            /\ scenarios.value[j].pricePerShare =
                 Div(scenarios.value[j].equityValue,
                     Mul(financials.sharesOutstanding, Num(DollarsPerMillion)))
    /\ CalcReturned =>
         /\ calc.value.equityValue = calc.value.enterpriseValue
         /\ calc.value.fairValuePerShare =
              Div(calc.value.equityValue,
                  Num(IF entry = "calculator" THEN calculatorShares ELSE utilsShares))

C10_Witness ==
    /\ DCFReturned
    /\ Gt(data.totalDebt, Num(0))
    /\ IsFinite(dcf.value.pricePerShare)
    /\ ~IsZero(dcf.value.pricePerShare)

\* the sum over i in 0..forecastYears-1 of fcf[i] / (1+wacc)^(i+1), added
\* up from acc
RECURSIVE DiscountedFrom(_, _, _, _, _)
DiscountedFrom(fcf, wacc, i, forecastYears, acc) ==
    IF i > forecastYears - 1 THEN acc
    ELSE DiscountedFrom(fcf, wacc, i + 1, forecastYears,
                        Add(acc, Div(At(fcf, i), Pow(Add(Num(1), wacc), i + 1))))

DiscountedValue(fcf, terminalValue, wacc, forecastYears) ==
    Add(DiscountedFrom(fcf, wacc, 0, forecastYears, Num(0)),
        Div(terminalValue, Pow(Add(Num(1), wacc), forecastYears)))

\* C11: enterpriseValue is the sum over i in 0..forecastYears-1 of
\* fcf[i] / (1+wacc)^(i+1) plus terminalValue / (1+wacc)^forecastYears, in
\* calculateDCF for the projected FCFs, terminal value and wacc it returns,
\* and in runDCFAnalysis for each scenario's projection (the scenario's
\* enterpriseValue being that sum converted from millions to dollars)
C11_EnterpriseValueDiscounting ==
    /\ DCFReturned =>
         dcf.value.enterpriseValue =
            DiscountedValue(dcf.value.projectedFCF, dcf.value.terminalValue,
                            dcf.value.wacc, inputs.forecastYears)
    /\ ScenariosReturned =>
         \A j \in 1..Len(scenarios.value) :
            LET wacc == calculateWACC(financials, fdsInputs)
                fcf == projectFCF(financials.freeCashFlow,
                                  scenarios.value[j].growthRate,
                                  fdsInputs.forecastYears)
                terminalValue ==
                    calculateTerminalValue(At(fcf, fdsInputs.forecastYears - 1),
                                           fdsInputs.terminalGrowthRate, wacc)
            IN  scenarios.value[j].enterpriseValue =
                   Mul(DiscountedValue(fcf, terminalValue, wacc,
                                       fdsInputs.forecastYears),
                       Num(DollarsPerMillion))

C11_Witness ==
    /\ DCFReturned
    /\ inputs.forecastYears >= 2
    /\ Gt(dcf.value.wacc, inputs.terminalGrowthRate)
    /\ Gt(dcf.value.wacc, Num(0))
    /\ IsFinite(dcf.value.enterpriseValue)
    /\ Gt(dcf.value.enterpriseValue, Num(0))
    /\ \A i \in 1..Len(dcf.value.projectedFCF) :
          Gt(dcf.value.projectedFCF[i], Num(0))

\* finalYearFCF * (1 + terminalGrowthRate) / (wacc - terminalGrowthRate)
GordonTerminalValue(finalYearFCF, terminalGrowthRate, wacc) ==
    Div(Mul(finalYearFCF, Add(Num(1), terminalGrowthRate)),
        Sub(wacc, terminalGrowthRate))

\* C12: terminalValue = finalYearFCF * (1 + terminalGrowthRate) /
\* (wacc - terminalGrowthRate), finalYearFCF being the last projected cash
\* flow (index forecastYears - 1): for the terminalValue calculateDCF
\* returns, for the terminal value inside each scenario's enterpriseValue,
\* and for finalYearFCF 100, terminalGrowthRate 0.025, wacc 0.10, which
\* gives 100 * 1.025 / 0.075
C12_TerminalValue ==
    /\ DCFReturned =>
         dcf.value.terminalValue =
            GordonTerminalValue(At(dcf.value.projectedFCF, inputs.forecastYears - 1),
                                inputs.terminalGrowthRate, dcf.value.wacc)
    /\ ScenariosReturned =>
         \A j \in 1..Len(scenarios.value) :
            LET wacc == calculateWACC(financials, fdsInputs)
                fcf == projectFCF(financials.freeCashFlow,
                                  scenarios.value[j].growthRate,
                                  fdsInputs.forecastYears)
                terminalValue ==
                    GordonTerminalValue(At(fcf, fdsInputs.forecastYears - 1),
                                        fdsInputs.terminalGrowthRate, wacc)
            IN  scenarios.value[j].enterpriseValue =
                   Mul(DiscountedValue(fcf, terminalValue, wacc,
                                       fdsInputs.forecastYears),
                       Num(DollarsPerMillion))
    /\ calculateTerminalValue(Num(100), Q(25, 1000), Q(10, 100)) =
         Div(Mul(Num(100), Q(1025, 1000)), Q(75, 1000))

C12_Witness ==
    /\ ScenariosReturned
    /\ Gt(fdsInputs.terminalGrowthRate, Num(0))
    /\ Gt(calculateWACC(financials, fdsInputs), fdsInputs.terminalGrowthRate)
    /\ \A j \in 1..Len(scenarios.value) :
          /\ IsFinite(scenarios.value[j].enterpriseValue)
          /\ Gt(scenarios.value[j].enterpriseValue, Num(0))

\* fcf has exactly forecastYears entries, fcf[0] = base * (1 + rate) and
\* fcf[i] = fcf[i-1] * (1 + rate) for i > 0
IsCompounded(fcf, base, rate, forecastYears) ==
    /\ Len(fcf) = forecastYears
    /\ \A i \in 0..(forecastYears - 1) :
          At(fcf, i) = Mul(IF i = 0 THEN base ELSE At(fcf, i - 1),
                           Add(Num(1), rate))

\* C13: the cash-flow projection has exactly forecastYears entries, with
\* fcf[0] = base * (1 + rate) and fcf[i] = fcf[i-1] * (1 + rate) for i > 0,
\* and negative or shrinking values are not clamped: the projection
\* calculateDCF returns, from the base FCF and average growth rate it
\* uses, and the projectFCF projection of each scenario
C13_Projection ==
    /\ DCFReturned =>
         IsCompounded(dcf.value.projectedFCF,
                      At(historicalFCFOf(data), 0),
                      calculateAverageGrowthRate(historicalFCFOf(data)),
                      inputs.forecastYears)
    /\ ScenariosReturned =>
         \A j \in 1..Len(scenarioList) :
            IsCompounded(projectFCF(financials.freeCashFlow,
                                    scenarioList[j].growthRate,
                                    fdsInputs.forecastYears),
                         financials.freeCashFlow,
                         scenarioList[j].growthRate,
                         fdsInputs.forecastYears)

C13_Witness ==
    /\ ScenariosReturned
    /\ Lt(financials.freeCashFlow, Num(0))
    /\ fdsInputs.forecastYears >= 2
    /\ Gt(calculateWACC(financials, fdsInputs), fdsInputs.terminalGrowthRate)
    /\ \A j \in 1..Len(scenarios.value) :
          Lt(scenarios.value[j].enterpriseValue, Num(0))

\* wacc = equityWeight * costOfEquity + debtWeight * costOfDebt with
\* equityWeight = marketCap / (marketCap + totalDebt) and
\* debtWeight = 1 - equityWeight; with both marketCap and totalDebt
\* positive the weights are in (0,1), sum to 1, and wacc lies between
\* costOfDebt and costOfEquity
IsWeightedAverage(wacc, costOfEquity, costOfDebt, marketCap, totalDebt) ==
    LET equityWeight == Div(marketCap, Add(marketCap, totalDebt))
        debtWeight == Sub(Num(1), equityWeight)
    IN  /\ wacc = Add(Mul(equityWeight, costOfEquity), Mul(debtWeight, costOfDebt))
        /\ (Gt(marketCap, Num(0)) /\ Gt(totalDebt, Num(0))) =>
             /\ Gt(equityWeight, Num(0)) /\ Lt(equityWeight, Num(1))
             /\ Gt(debtWeight, Num(0)) /\ Lt(debtWeight, Num(1))
             /\ Add(equityWeight, debtWeight) = Num(1)
             /\ (IsFinite(costOfEquity) /\ IsFinite(costOfDebt)) =>
                  \/ Le(costOfDebt, wacc) /\ Le(wacc, costOfEquity)
                  \/ Le(costOfEquity, wacc) /\ Le(wacc, costOfDebt)

\* C14: costOfEquity = riskFreeRate + beta * (marketReturn - riskFreeRate)
\* and wacc = equityWeight * costOfEquity + debtWeight * costOfDebt with
\* equityWeight = marketCap / (marketCap + totalDebt) and debtWeight =
\* 1 - equityWeight, so that for marketCap > 0 and totalDebt > 0 the
\* weights are in (0,1), sum to 1 and wacc lies between costOfDebt and
\* costOfEquity: in calculateDCF for the values it returns, and in
\* calculateWACC (whose marketRiskPremium is marketReturn - riskFreeRate)
C14_WeightedAverageCost ==
    /\ DCFReturned =>
         /\ dcf.value.costOfEquity =
              Add(inputs.riskFreeRate,
                  Mul(data.beta, Sub(inputs.marketReturn, inputs.riskFreeRate)))
         /\ IsWeightedAverage(dcf.value.wacc, dcf.value.costOfEquity,
                              dcf.value.costOfDebt, data.marketCap, data.totalDebt)
    /\ ScenariosReturned =>
         IsWeightedAverage(calculateWACC(financials, fdsInputs),
                           Add(fdsInputs.riskFreeRate,
                               Mul(financials.beta, fdsInputs.marketRiskPremium)),
                           Mul(Div(financials.interestExpense, financials.totalDebt),
                               Sub(Num(1), financials.taxRate)),
                           financials.marketCap, financials.totalDebt)

C14_Witness ==
    /\ ScenariosReturned
    /\ Gt(financials.marketCap, financials.totalDebt)
    /\ Gt(financials.totalDebt, Num(0))
    /\ Gt(financials.interestExpense, Num(0))
    /\ Gt(calculateWACC(financials, fdsInputs),
          Add(fdsInputs.riskFreeRate,
              Mul(financials.beta, fdsInputs.marketRiskPremium)))
    /\ Lt(calculateWACC(financials, fdsInputs),
          Mul(Div(financials.interestExpense, financials.totalDebt),
              Sub(Num(1), financials.taxRate)))

\* the positions i of a series whose value is a previous value that is not
\* zero: series[i] is prev and series[i+1] is curr
ValidPairs(series) ==
    {i \in 1..(Len(series) - 1) : ~Eq(series[i], Num(0))}

\* the sum of (curr - prev) / abs(prev) over the valid pairs at positions
\* 1..i
RECURSIVE PairGrowthSum(_, _)
PairGrowthSum(series, i) ==
    IF i < 1 THEN Num(0)
    ELSE Add(PairGrowthSum(series, i - 1),
             IF i \in ValidPairs(series)
             THEN Div(Sub(series[i + 1], series[i]), Abs(series[i]))
             ELSE Num(0))

\* the arithmetic mean of the growth over the valid pairs, 0 without any
MeanGrowth(series) ==
    IF ValidPairs(series) = {} THEN Num(0)
    ELSE Div(PairGrowthSum(series, Len(series) - 1),
             Num(Cardinality(ValidPairs(series))))

\* calculateDDM got past its first check: it has passed the dividend series
\* (data.dividends as the call left it) to calculateAverageGrowthRate
DividendGrowthEstimated ==
    DDMReturned /\ data.paysDividends /\ Len(data.dividends) >= 3

\* C15: calculateAverageGrowthRate returns the arithmetic mean of
\* (curr - prev) / abs(prev) over exactly the adjacent pairs with
\* prev != 0, pairs with prev == 0 being left out of the sum and of the
\* divisor: for the dividend series calculateDDM passes to it, for the
\* historical FCF series of calculateDCF, and for [100, 110, 121], which
\* gives 0.10
C15_AverageGrowth ==
    /\ DividendGrowthEstimated =>
         ddm.value.avgDividendGrowth = MeanGrowth(data.dividends)
    /\ DCFReturned =>
         calculateAverageGrowthRate(historicalFCFOf(data)) =
            MeanGrowth(historicalFCFOf(data))
    /\ calculateAverageGrowthRate(<<Num(100), Num(110), Num(121)>>) = Q(10, 100)

C15_Witness ==
    /\ DividendGrowthEstimated
    /\ ValidPairs(data.dividends) # {}
    /\ ValidPairs(data.dividends) # 1..(Len(data.dividends) - 1)
    /\ ~IsZero(ddm.value.avgDividendGrowth)
    /\ IsFinite(ddm.value.avgDividendGrowth)

\* C16: calculateAverageGrowthRate returns 0, raising no error, for every
\* series without a valid pair: the empty series, a single-element series
\* such as [100], and a series in which every previous value is zero
C16_NoValidPairGivesZero ==
    /\ (DividendGrowthEstimated /\ ValidPairs(data.dividends) = {}) =>
         ddm.value.avgDividendGrowth = Num(0)
    /\ (DCFReturned /\ ValidPairs(historicalFCFOf(data)) = {}) =>
         /\ calculateAverageGrowthRate(historicalFCFOf(data)) = Num(0)
         /\ \A i \in 1..Len(dcf.value.projectedFCF) :
               dcf.value.projectedFCF[i] = At(historicalFCFOf(data), 0)
    /\ calculateAverageGrowthRate(<<>>) = Num(0)
    /\ calculateAverageGrowthRate(<<Num(100)>>) = Num(0)
    /\ calculateAverageGrowthRate(<<Num(0), Num(0), Num(100)>>) = Num(0)

C16_Witness ==
    /\ DividendGrowthEstimated
    /\ ValidPairs(data.dividends) = {}
    /\ ddm.value.avgDividendGrowth = Num(0)
    /\ ddm.value.applicable

\* the dividend series is empty or all zeros
NoDividendsPaid(dividends) ==
    \A i \in 1..Len(dividends) : IsZero(dividends[i])

DDMCostOfEquity ==
    Add(inputs.riskFreeRate,
        Mul(data.beta, Sub(inputs.marketReturn, inputs.riskFreeRate)))

\* C18: the DDM returns applicable = false whenever avgDividendGrowth >=
\* costOfEquity, equality included, so that in every result with
\* applicable = true the denominator costOfEquity - avgDividendGrowth is
\* strictly positive
C18_GrowthBelowCostOfEquity ==
    /\ (DividendGrowthEstimated
          /\ Ge(ddm.value.avgDividendGrowth, DDMCostOfEquity)) =>
         ~ddm.value.applicable
    /\ (DDMReturned /\ ddm.value.applicable) =>
         Gt(Sub(DDMCostOfEquity, ddm.value.avgDividendGrowth), Num(0))

C18_Witness ==
    /\ DividendGrowthEstimated
    /\ Eq(ddm.value.avgDividendGrowth, DDMCostOfEquity)
    /\ ~ddm.value.applicable
    /\ ddm.value.intrinsicValue = Num(0)

\* C19: the DDM run on the dividends [2.50, 2.40, 2.30, 2.20, 2.10]
\* computes a positive avgDividendGrowth and, when costOfEquity is above
\* that growth, returns applicable = true with intrinsicValue =
\* nextYearDividend / (costOfEquity - avgDividendGrowth)
C19_SampleDividends ==
    (DDMReturned /\ Reverse(data.dividends) = SampleDividends) =>
        /\ Gt(ddm.value.avgDividendGrowth, Num(0))
        /\ Gt(DDMCostOfEquity, ddm.value.avgDividendGrowth) =>
             /\ ddm.value.applicable
             /\ ddm.value.intrinsicValue =
                  Div(ddm.value.nextYearDividend,
                      Sub(DDMCostOfEquity, ddm.value.avgDividendGrowth))

C19_Witness ==
    /\ DDMReturned
    /\ Reverse(data.dividends) = SampleDividends
    /\ Gt(ddm.value.avgDividendGrowth, Num(0))
    /\ ddm.value.applicable
    /\ Gt(ddm.value.intrinsicValue, Num(0))

RecommendationReturned == recommendation.outcome = "returned"

\* the upside figure the recommendation is classified from: the mean of the
\* two upsides when the DDM is applicable, the DCF upside when it is not
ClassifiedUpside ==
    IF valuation.ddm.applicable
    THEN Div(Add(valuation.dcf.upside, valuation.ddm.upside), Num(2))
    ELSE valuation.dcf.upside

\* the rating the closing sentence of a recommendation text gives
RatingOf(text) ==
    LET closing == text[Len(text)]
    IN  IF closing \in {dualVerdicts.strongBuy, dcfVerdicts.strongBuy} THEN "Strong Buy"
        ELSE IF closing \in {dualVerdicts.buy, dcfVerdicts.buy} THEN "Buy"
        ELSE IF closing \in {dualVerdicts.hold, dcfVerdicts.hold} THEN "Hold"
        ELSE IF closing \in {dualVerdicts.sell, dcfVerdicts.sell} THEN "Sell"
        ELSE "none"

\* C20: the recommendation is classified from the upside figure u by strict
\* thresholds, u > 0.15 Strong Buy, else u > 0.05 Buy, else u > -0.05 Hold,
\* else Sell, so that u = 0.15 gives Buy, u = 0.05 Hold and u = -0.05 Sell,
\* the same whether or not the DDM is applicable
C20_Thresholds ==
    RecommendationReturned =>
        LET u == ClassifiedUpside
            rating == RatingOf(recommendation.value.text)
        IN  /\ rating = IF Gt(u, Q(15, 100)) THEN "Strong Buy"
                        ELSE IF Gt(u, Q(5, 100)) THEN "Buy"
                        ELSE IF Gt(u, Q(-5, 100)) THEN "Hold"
                        ELSE "Sell"
            /\ Eq(u, Q(15, 100)) => rating = "Buy"
            /\ Eq(u, Q(5, 100)) => rating = "Hold"
            /\ Eq(u, Q(-5, 100)) => rating = "Sell"

C20_Witness ==
    /\ RecommendationReturned
    /\ valuation.ddm.applicable
    /\ ~Eq(valuation.dcf.upside, valuation.ddm.upside)
    /\ Eq(ClassifiedUpside, Q(15, 100))
    /\ RatingOf(recommendation.value.text) = "Buy"

\* the rating the strict thresholds give the figure u
RatingAt(u) ==
    IF Gt(u, Q(15, 100)) THEN "Strong Buy"
    ELSE IF Gt(u, Q(5, 100)) THEN "Buy"
    ELSE IF Gt(u, Q(-5, 100)) THEN "Hold"
    ELSE "Sell"

\* C21: the figure fed to the thresholds is (dcf.upside + ddm.upside) / 2
\* when ddm.applicable is true and dcf.upside alone when it is false: the
\* DDM upside of a result that is not applicable never influences the
\* classification (any other DDM upside gives the same text)
C21_ClassifiedFigure ==
    RecommendationReturned =>
        /\ valuation.ddm.applicable =>
             RatingOf(recommendation.value.text) =
                RatingAt(Div(Add(valuation.dcf.upside, valuation.ddm.upside), Num(2)))
        /\ ~valuation.ddm.applicable =>
             /\ RatingOf(recommendation.value.text) = RatingAt(valuation.dcf.upside)
             /\ \A u \in UpsideValues :
                   generateRecommendation(valuation.dcf,
                                          [valuation.ddm EXCEPT !.upside = u]).text
                      = recommendation.value.text

C21_Witness ==
    /\ RecommendationReturned
    /\ ~valuation.ddm.applicable
    /\ RatingOf(recommendation.value.text) = "Strong Buy"
    /\ RatingAt(Div(Add(valuation.dcf.upside, valuation.ddm.upside), Num(2))) = "Hold"

\* C22: in every DDMResult calculateDDM returns the reason field is present
\* if and only if applicable is false
C22_ReasonIffNotApplicable ==
    DDMReturned =>
        (("reason" \in DOMAIN ddm.value) <=> ~ddm.value.applicable)

C22_Witness ==
    /\ DDMReturned
    /\ ddmRuns = MaxRuns
    /\ ddm.value.applicable
    /\ "reason" \notin DOMAIN ddm.value
    /\ IsFinite(ddm.value.upside)

\* a supplied series in chronological order, oldest year first, under the
\* convention that its newest year is at the given end
Chronological(series, newestAt) ==
    IF newestAt = "last" THEN series ELSE Reverse(series)

\* the value of the most recent year of a supplied series under a convention
MostRecentOf(series, newestAt) ==
    At(Chronological(series, newestAt), Len(series) - 1)

\* the mean period-over-period growth, from older year to newer year, of a
\* supplied series under a convention
GrowthOlderToNewer(series, newestAt) ==
    calculateAverageGrowthRate(Chronological(series, newestAt))

\* C23: the history-based DCF and the DDM use one ordering convention for
\* the supplied series: there is one end of the supplied arrays that is the
\* newest year both for the value taken as most recent (base FCF, current
\* dividend) and for the direction of the growth computed from older year
\* to newer year
C23_OneOrderingConvention ==
    \E newestAt \in {"first", "last"} :
        /\ DCFReturned =>
             dcf.value.projectedFCF =
                projectFrom(MostRecentOf(historicalFCFOf(supplied), newestAt),
                            GrowthOlderToNewer(historicalFCFOf(supplied), newestAt),
                            1, inputs.forecastYears)
        /\ (DDMReturned /\ ddm.value.applicable) =>
             /\ ddm.value.avgDividendGrowth =
                  GrowthOlderToNewer(supplied.dividends, newestAt)
             /\ ddm.value.nextYearDividend =
                  Mul(MostRecentOf(supplied.dividends, newestAt),
                      Add(Num(1), ddm.value.avgDividendGrowth))

\* revenue of forecast year i (1 is the first): the revenue of the year
\* before, grown by revenueGrowthRates[i - 1], from the fixed base revenue
RECURSIVE RevenueOfYear(_, _)
RevenueOfYear(d, i) ==
    IF i = 0 THEN Num(initialRevenue)
    ELSE Mul(RevenueOfYear(d, i - 1), Add(Num(1), At(d.revenueGrowthRates, i - 1)))

\* NOPAT of forecast year i: revenue * operating margin * (1 - taxRate)
NOPATOfYear(d, i) ==
    Mul(Mul(RevenueOfYear(d, i), At(d.operatingMargins, i - 1)),
        Sub(Num(1), d.taxRate))

CalculatorReturned == entry = "calculator" /\ CalcReturned

\* C24: DCFCalculator returns projectedFreeCashFlows of length exactly
\* forecastYears, the entry of each year being 0.85 times the NOPAT of the
\* year, NOPAT = revenue * operatingMargins[i] * (1 - taxRate), and the
\* revenue of a year being the revenue of the year before times
\* (1 + revenueGrowthRates[i]), starting from the fixed base revenue
C24_ProjectedFreeCashFlows ==
    CalculatorReturned =>
        /\ Len(calc.value.projectedFreeCashFlows) = dcfData.forecastYears
        /\ \A i \in 1..dcfData.forecastYears :
              calc.value.projectedFreeCashFlows[i] =
                 Mul(Q(85, 100), NOPATOfYear(dcfData, i))

C24_Witness ==
    /\ CalculatorReturned
    /\ dcfData.forecastYears = MaxForecastYears
    /\ Len(dcfData.revenueGrowthRates) = dcfData.forecastYears
    /\ Len(dcfData.operatingMargins) = dcfData.forecastYears
    /\ \A i \in 1..dcfData.forecastYears :
          /\ Gt(dcfData.revenueGrowthRates[i], Num(0))
          /\ Gt(calc.value.projectedFreeCashFlows[i], Num(0))
    /\ \A i \in 2..dcfData.forecastYears :
          calc.value.projectedFreeCashFlows[i] =
             Mul(Q(3, 2), calc.value.projectedFreeCashFlows[i - 1])

UtilsReturned == entry = "utils" /\ CalcReturned

\* the entry of a rate array for a year (0 is the first), exactly as
\* supplied, and the default for a year the array has no entry for
SuppliedOr(rates, year, dflt) ==
    IF year < Len(rates) THEN rates[year + 1] ELSE dflt

\* the free cash flows of years year .. forecastYears - 1 when every supplied
\* rate is used as given: NOPAT less capex (5% of revenue) and the change in
\* working capital (2% of revenue)
RECURSIVE FCFsAsSupplied(_, _, _)
FCFsAsSupplied(currentRevenue, d, year) ==
    IF year >= d.forecastYears THEN <<>>
    ELSE LET revenue ==
                 Mul(currentRevenue,
                     Add(Num(1), SuppliedOr(d.revenueGrowthRates, year, Q(5, 100))))
             operatingIncome ==
                 Mul(revenue, SuppliedOr(d.operatingMargins, year, Q(15, 100)))
             nopat == Sub(operatingIncome, Mul(operatingIncome, d.taxRate))
         IN  <<Sub(Sub(nopat, Mul(revenue, Q(5, 100))), Mul(revenue, Q(2, 100)))>>
             \o FCFsAsSupplied(revenue, d, year + 1)

\* C25: calculateDCF of utils/dcfCalculator uses revenueGrowthRates[i] and
\* operatingMargins[i] exactly as the caller supplies them, a supplied 0
\* included, and the defaults 0.05 and 0.15 only for the years the arrays
\* have no entry for
C25_SuppliedRatesUsedAsGiven ==
    UtilsReturned =>
        calc.value.projectedFreeCashFlows =
           FCFsAsSupplied(Num(utilsInitialRevenue), dcfData, 0)

\* the conditions under which the scenarios are compared: a positive base
\* free cash flow, a discount rate above the terminal growth rate, shares
\* outstanding and at least one forecast year
ScenariosComparable ==
    /\ ScenariosReturned
    /\ Gt(financials.freeCashFlow, Num(0))
    /\ Gt(calculateWACC(financials, fdsInputs), fdsInputs.terminalGrowthRate)
    /\ Gt(financials.sharesOutstanding, Num(0))
    /\ fdsInputs.forecastYears >= 1

\* exactly the scenarios Bear, Base and Bull, in this order, with growth
\* rates 0.01, 0.03 and 0.05
ThreeScenarios ==
    /\ Len(scenarios.value) = 3
    /\ scenarios.value[1].name = "Bear" /\ scenarios.value[1].growthRate = Q(1, 100)
    /\ scenarios.value[2].name = "Base" /\ scenarios.value[2].growthRate = Q(3, 100)
    /\ scenarios.value[3].name = "Bull" /\ scenarios.value[3].growthRate = Q(5, 100)

\* enterpriseValue, equityValue and pricePerShare each strictly increase
\* from one scenario to the next
StrictlyIncreasing ==
    \A j \in 1..(Len(scenarios.value) - 1) :
        /\ Lt(scenarios.value[j].enterpriseValue, scenarios.value[j + 1].enterpriseValue)
        /\ Lt(scenarios.value[j].equityValue, scenarios.value[j + 1].equityValue)
        /\ Lt(scenarios.value[j].pricePerShare, scenarios.value[j + 1].pricePerShare)

\* C26 as stated: runDCFAnalysis returns exactly the scenarios Bear, Base and
\* Bull (0.01, 0.03, 0.05), and whenever freeCashFlow > 0, wacc >
\* terminalGrowthRate, sharesOutstanding > 0 and forecastYears >= 1 their
\* enterpriseValue, equityValue and pricePerShare strictly increase from Bear
\* to Base to Bull
C26_ScenariosOrderedAsStated ==
    ScenariosReturned =>
        /\ ThreeScenarios
        /\ ScenariosComparable => StrictlyIncreasing

\* C26: runDCFAnalysis returns exactly the scenarios Bear, Base and Bull
\* (0.01, 0.03, 0.05), and whenever freeCashFlow > 0, wacc >
\* terminalGrowthRate, wacc > -1, sharesOutstanding > 0 and forecastYears >= 1
\* their enterpriseValue, equityValue and pricePerShare strictly increase
\* from Bear to Base to Bull
C26_ScenariosOrdered ==
    ScenariosReturned =>
        /\ ThreeScenarios
        /\ (ScenariosComparable /\ Gt(calculateWACC(financials, fdsInputs), Num(-1)))
              => StrictlyIncreasing

C26_Witness ==
    /\ ScenariosComparable
    /\ Gt(calculateWACC(financials, fdsInputs), Num(-1))
    /\ fdsInputs.forecastYears = MaxForecastYears
    /\ Gt(financials.totalDebt, Num(0))
    /\ Gt(scenarios.value[1].equityValue, Num(0))
    /\ Lt(scenarios.value[1].pricePerShare, scenarios.value[3].pricePerShare)

PageMounted == entry = "page"

PageRunning == PageMounted /\ page.run # NoRun

PageSettled == PageMounted /\ page.run = NoRun /\ page.runs >= 1

\* C27: with a non-empty initialTicker the page-level analyzer starts the
\* automatic analysis at most once for the ticker: after an automatically
\* started run has settled with an error the effect starts no other run
C27_AutoStartedAtMostOnce ==
    PageMounted => page.autoStarts <= 1

\* C28: every run of the page-level handleDataSourceSelected, for the sources
\* 'api', 'csv' and 'fmp', has results and error cleared and isLoading true
\* from its start until it settles, and settles with isLoading false and
\* exactly one of results and error set
C28_RunSettlesWithResultsOrError ==
    /\ PageRunning =>
         page.isLoading /\ page.results = "null" /\ page.error = "null"
    /\ PageSettled =>
         /\ ~page.isLoading
         /\ (page.results # "null") # (page.error # "null")

AnalyzerRunning == entry = "analyzer" /\ analyzer.run # NoRun

AnalyzerSettled == entry = "analyzer" /\ analyzer.run = NoRun /\ analyzer.runs >= 1

\* the values (i + 1) * 100 / 8 for i = 0 .. n - 1, in this order
ProgressValues(n) ==
    [j \in 1..n |-> Div(Mul(Num(j), Num(100)), Num(8))]

\* the progress values of the steps of the current or the last run: those
\* set after the setProgress(0) of its start
StepProgress ==
    SubSeq(analyzer.shown, 2, Len(analyzer.shown))

EdgeServed == entry = "edge" /\ edge.served

\* the request asks for data: it is not an OPTIONS request
DataRequest == edge.request.method # "OPTIONS"

SupportedDataTypes ==
    {"overview", "income_statement", "balance_sheet", "cash_flow", "earnings"}

\* the conditions under which Alpha Vantage is queried
Fetchable ==
    /\ DataRequest
    /\ edge.request.json.valid
    /\ edge.request.json.ticker # ""
    /\ edge.request.json.dataType # ""
    /\ edge.apiKeyConfigured
    /\ edge.request.json.dataType \in SupportedDataTypes

\* the status of the answer to a request that is not fetchable, the checks
\* being made in the order: body readable, fields present, API key, dataType
RefusalStatus ==
    IF ~edge.request.json.valid THEN 500
    ELSE IF edge.request.json.ticker = "" \/ edge.request.json.dataType = "" THEN 400
    ELSE IF ~edge.apiKeyConfigured THEN 500
    ELSE 400

\* an upstream 'Error Message' maps to 400 and an upstream 'Note' to 429
UpstreamErrorsMapped ==
    (EdgeServed /\ edge.fetch # "" /\ edge.response.status # 0 /\ edge.upstream.resolved) =>
        /\ edge.upstream.errorMessage =>
             edge.response.status = 400 /\ edge.response.body.kind = "error"
        /\ (edge.upstream.note /\ ~edge.upstream.errorMessage) =>
             edge.response.status = 429 /\ edge.response.body.kind = "error"

\* C30 as stated: the edge function queries Alpha Vantage only for a request
\* that is not OPTIONS, has a non-empty ticker and dataType and a supported
\* dataType, with the API key configured; every other request is answered
\* with an error body and status 400 or 500, the checks being applied in the
\* order missing fields, API key, dataType; an upstream 'Error Message' maps
\* to 400 and an upstream 'Note' to 429
C30_RequestsServedAsStated ==
    EdgeServed =>
        /\ (edge.fetch # "") <=> Fetchable
        /\ ~Fetchable =>
             /\ edge.response.body.kind = "error"
             /\ edge.response.status = RefusalStatus
        /\ UpstreamErrorsMapped

\* C30: the edge function queries Alpha Vantage only for a request that is
\* not OPTIONS, has a non-empty ticker and dataType and a supported dataType,
\* with the API key configured; every other request that is not OPTIONS is
\* answered with an error body and status 400 or 500, the checks being
\* applied in the order missing fields, API key, dataType; an OPTIONS request
\* is answered with status 200 and no body; an upstream 'Error Message' maps
\* to 400 and an upstream 'Note' to 429
C30_RequestsServed ==
    EdgeServed =>
        /\ (edge.fetch # "") <=> Fetchable
        /\ (~Fetchable /\ DataRequest) =>
             /\ edge.response.body.kind = "error"
             /\ edge.response.status = RefusalStatus
        /\ ~DataRequest =>
             /\ edge.response.body.kind = "null"
             /\ edge.response.status = 200
        /\ UpstreamErrorsMapped

C30_Witness ==
    /\ EdgeServed
    /\ DataRequest
    /\ edge.request.json.valid
    /\ edge.request.json.ticker = ""
    /\ ~edge.apiKeyConfigured
    /\ edge.request.json.dataType = "quote"
    /\ edge.response.status = 400
    /\ edge.response.body = errorBody("Missing ticker or dataType")

====
